---- MODULE Spec2Model ----
(***************************************************************************)
(* Model of the cbgb partition (vbucket) actor: its by-key and by-CAS      *)
(* trees, the CAS counter, the range config, the command handlers of the   *)
(* dispatch table and the split-range coordinator with its nested Apply    *)
(* visits.                                                                 *)
(***************************************************************************)
EXTENDS Integers, Sequences, FiniteSets, TLC

\* ------------------------------------------------------------------ bounds

\* Mutating commands are explored while a partition's CAS counter is below this.
MaxCas == 3
\* Number of requests (commands, state changes, split-ranges) sent to the bucket.
MaxRequests == 3
\* Number of subscriptions made to the sequence hub.
MaxSubs == 2
\* Activity is added to a bucket while its activity counter is below this.
MaxActivity == 2
\* A bucket is registered under a name while the name has fewer quiescers
\* registered with the periodic driver than this.
MaxQuiescers == 2

\* ------------------------------------------------------------- byte strings

\* Keys are byte strings; the keys and range bounds used are single bytes.
KeyA == <<97>>
KeyM == <<109>>
KeyN == <<110>>
KeyZ == <<122>>
EmptyBytes == <<>>

\* A nil []byte body (a tombstone's data, a request without body).
NilBytes == "<nil>"

RECURSIVE BytesCompare(_, _)
\* bytes.Compare: lexicographic order of two byte strings, as -1, 0 or 1.
BytesCompare(p, q) ==
    IF Len(p) = 0 /\ Len(q) = 0 THEN 0
    ELSE IF Len(p) = 0 THEN -1
    ELSE IF Len(q) = 0 THEN 1
    ELSE IF Head(p) < Head(q) THEN -1
    ELSE IF Head(p) > Head(q) THEN 1
    ELSE BytesCompare(Tail(p), Tail(q))

\* ------------------------------------------------------------------- items

\* An item; a probe item such as &item{key: k} has cas 0 and nil data.
Item(key, cas, data) == [key |-> key, cas |-> cas, data |-> data]

KeyLess(p, q) == BytesCompare(p.key, q.key)

CASLess(p, q) == IF p.cas < q.cas THEN -1 ELSE IF p.cas = q.cas THEN 0 ELSE 1

\* ------------------------------------------------------------------ treaps
\* gtreap.Treap is an immutable ordered collection: Upsert and Delete return
\* a new treap and leave the receiver as it was.  A treap is modelled by its
\* comparator and the set of its items; an optional item is a set of at most
\* one item.

NewTreap(compare) == [compare |-> compare, elems |-> {}]

Compare(t, p, q) == IF t.compare = "KeyLess" THEN KeyLess(p, q) ELSE CASLess(p, q)

TreapGet(t, target) == {x \in t.elems : Compare(t, x, target) = 0}

\* An insert that keeps the item already there.
Upsert_keepsOld(t, x) ==
    IF TreapGet(t, x) # {} THEN t ELSE [t EXCEPT !.elems = @ \cup {x}]

Upsert(t, x) ==
    [t EXCEPT !.elems = {y \in t.elems : Compare(t, y, x) # 0} \cup {x}]

\* A delete that removes nothing.
TreapDelete_keeps(t, target) == t

TreapDelete(t, target) ==
    [t EXCEPT !.elems = {y \in t.elems : Compare(t, y, target) # 0}]

TreapMin(t) == {x \in t.elems : \A y \in t.elems : Compare(t, x, y) <= 0}

RECURSIVE Ascending(_, _)
\* The items of S in the treap's ascending order.
Ascending(t, S) ==
    IF S = {} THEN <<>>
    ELSE LET x == CHOOSE y \in S : \A w \in S : Compare(t, y, w) <= 0
         IN  <<x>> \o Ascending(t, S \ {x})

\* VisitAscend(pivot, visitor): the items the visitor is shown, in order: all
\* items at or after the pivot.  A nil pivot comes only from Min() of an
\* empty treap, which has nothing to visit.
VisitAscend(t, pivot) ==
    Ascending(t, {x \in t.elems : \A p \in pivot : Compare(t, p, x) <= 0})

\* -------------------------------------------------------------- partitions

VBActive == "active"
VBReplica == "replica"
VBPending == "pending"
VBDead == "dead"
VBStates == {VBActive, VBReplica, VBPending, VBDead}

\* The vbucket ids of the bucket: 0 .. MAX_VBUCKET-1, for a bucket of three ids.
VBIDs == {0, 1, 2}
MAX_VBUCKET == Cardinality(VBIDs)

SUCCESS == "SUCCESS"
KEY_ENOENT == "KEY_ENOENT"
EINVAL == "EINVAL"
NOT_MY_RANGE == "NOT_MY_RANGE"

VBConfig(min, max) == [MinKeyInclusive |-> min, MaxKeyExclusive |-> max]

\* The slot of a vbucket id under which the bucket holds no vbucket.
NoVBucket(vbid) ==
    [exists |-> FALSE, vbid |-> vbid,
     items |-> NewTreap("KeyLess"), changes |-> NewTreap("CASLess"),
     cas |-> 0, state |-> VBDead, config |-> {}]

\* A nil config is the empty set, a config the set of that one config.
newVBucket(vbid) ==
    [exists |-> TRUE, vbid |-> vbid,
     items |-> NewTreap("KeyLess"), changes |-> NewTreap("CASLess"),
     cas |-> 0, state |-> VBDead, config |-> {}]

\* gomemcached.MCResponse; Opcode is left out.
MCResponse(status, key, cas, body, fatal) ==
    [Status |-> status, Key |-> key, Cas |-> cas, Body |-> body, Fatal |-> fatal]

StatusResponse(status) == MCResponse(status, EmptyBytes, 0, NilBytes, FALSE)

mutation(vb, key, cas, deleted) ==
    [vb |-> vb, key |-> key, cas |-> cas, deleted |-> deleted]

\* A request: opcode, key, body, CAS, and the place (0 = nowhere) at which the
\* transport fails while a streamed answer is written.
MCRequest(op, key, body, cas, failAt) ==
    [Opcode |-> op, Key |-> key, Body |-> body, Cas |-> cas, failAt |-> failAt]

IsQuiet(op) == op \in {"GETQ", "GETKQ", "SETQ", "DELETEQ"}

\* What a handler hands back: the partition as it leaves it, the response (none
\* for a quiet success), the mutation to broadcast (if any) and the responses
\* it streamed itself.
Handled(v, res, msg, stream) == [v |-> v, res |-> res, msg |-> msg, stream |-> stream]

\* ---------------------------------------------------------------- handlers

\* The range check without its test of the upper bound.
checkRange_nomax(v, req) ==
    IF \E c \in v.config :
          /\ Len(c.MinKeyInclusive) > 0
          /\ BytesCompare(req.Key, c.MinKeyInclusive) < 0
    THEN {StatusResponse(NOT_MY_RANGE)}
    ELSE {}

checkRange(v, req) ==
    IF \E c \in v.config :
          /\ Len(c.MinKeyInclusive) > 0
          /\ BytesCompare(req.Key, c.MinKeyInclusive) < 0
    THEN {StatusResponse(NOT_MY_RANGE)}
    ELSE IF \E c \in v.config :
          /\ Len(c.MaxKeyExclusive) > 0
          /\ BytesCompare(req.Key, c.MaxKeyExclusive) >= 0
    THEN {StatusResponse(NOT_MY_RANGE)}
    ELSE {}

\* A CAS test that lets every request pass.
SetCasMismatch_never(old, reqCas) == FALSE

\* The CAS test of vbSet: a zero request CAS is unconditional; the CAS of a
\* missing key counts as 0.
SetCasMismatch(old, reqCas) ==
    LET oldcas == IF old = {} THEN 0 ELSE (CHOOSE x \in old : TRUE).cas
    IN  reqCas # 0 /\ oldcas # reqCas

\* The counter left as it was.
NextCas_stuck(cas) == cas

\* v.cas++
NextCas(cas) == cas + 1

vbSet(v, req) ==
    LET rangeErr == checkRange(v, req)
        old      == TreapGet(v.items, Item(req.Key, 0, NilBytes))
        itemCas  == v.cas
        itemNew  == Item(req.Key, itemCas, req.Body)
        \* v.changes.Delete(old) is called without keeping the treap it
        \* returns, so the superseded change record stays in v.changes.
        changes  == Upsert(v.changes, itemNew)
    IN  IF rangeErr # {} THEN Handled(v, rangeErr, {}, <<>>)
        ELSE IF SetCasMismatch(old, req.Cas)
        THEN Handled(v, {StatusResponse(EINVAL)}, {}, <<>>)
        ELSE Handled([v EXCEPT !.cas = NextCas(v.cas),
                               !.items = Upsert(v.items, itemNew),
                               !.changes = changes],
                     IF IsQuiet(req.Opcode) THEN {}
                     ELSE {MCResponse(SUCCESS, EmptyBytes, itemCas, NilBytes, FALSE)},
                     {mutation(v.vbid, req.Key, itemCas, FALSE)},
                     <<>>)

vbGet(v, req) ==
    LET rangeErr == checkRange(v, req)
        x        == TreapGet(v.items, Item(req.Key, 0, NilBytes))
        i        == CHOOSE y \in x : TRUE
        wantsKey == req.Opcode \in {"GETK", "GETKQ"}
    IN  IF rangeErr # {} THEN Handled(v, rangeErr, {}, <<>>)
        ELSE IF x = {}
        THEN Handled(v, IF IsQuiet(req.Opcode) THEN {} ELSE {StatusResponse(KEY_ENOENT)},
                     {}, <<>>)
        ELSE Handled(v,
                     {MCResponse(SUCCESS, IF wantsKey THEN req.Key ELSE EmptyBytes,
                                 i.cas, i.data, FALSE)},
                     {}, <<>>)

\* A CAS test that lets every request pass.
DeleteCasMismatch_never(i, reqCas) == FALSE

\* The CAS test of vbDelete on an existing item.
DeleteCasMismatch(i, reqCas) == reqCas # 0 /\ reqCas # i.cas

vbDelete(v, req) ==
    LET rangeErr == checkRange(v, req)
        t        == Item(req.Key, 0, NilBytes)
        x        == TreapGet(v.items, t)
        i        == CHOOSE y \in x : TRUE
        cas      == v.cas
    IN  IF rangeErr # {} THEN Handled(v, rangeErr, {}, <<>>)
        ELSE IF x = {}
        THEN Handled(v, IF IsQuiet(req.Opcode) THEN {} ELSE {StatusResponse(KEY_ENOENT)},
                     {}, <<>>)
        ELSE IF DeleteCasMismatch(i, req.Cas)
        THEN Handled(v, {StatusResponse(EINVAL)}, {}, <<>>)
        ELSE Handled([v EXCEPT !.cas = NextCas(v.cas),
                               !.items = TreapDelete(v.items, t),
                               !.changes = Upsert(v.changes, Item(req.Key, cas, NilBytes))],
                     {StatusResponse(SUCCESS)},
                     {mutation(v.vbid, req.Key, cas, TRUE)},
                     <<>>)

\* The test with the request CAS itself let through.
Since_inclusive(i, reqCas) == i.cas >= reqCas

\* The test of the changes-since visitor: the item is above the request CAS.
Since(i, reqCas) == i.cas > reqCas

RECURSIVE ChangesVisitor(_, _, _, _)
\* The visitor of vbChangesSince over the visited items: one response is sent
\* for every item above the request CAS; the visit stops once the transport
\* has reported its error.
ChangesVisitor(visited, reqCas, failAt, sent) ==
    IF visited = <<>> THEN sent
    ELSE LET i == Head(visited)
             sent1 == Append(sent, MCResponse(SUCCESS, i.key, i.cas, NilBytes, FALSE))
         IN  IF Since(i, reqCas)
             THEN IF failAt # 0 /\ Len(sent1) >= failAt
                  THEN sent1
                  ELSE ChangesVisitor(Tail(visited), reqCas, failAt, sent1)
             ELSE ChangesVisitor(Tail(visited), reqCas, failAt, sent)

vbChangesSince(v, req) ==
    LET visited == VisitAscend(v.changes, {Item(EmptyBytes, req.Cas, NilBytes)})
        sent    == ChangesVisitor(visited, req.Cas, req.failAt, <<>>)
    IN  Handled(v,
                IF req.failAt # 0
                THEN {MCResponse(SUCCESS, EmptyBytes, 0, NilBytes, TRUE)}
                ELSE {MCResponse(SUCCESS, EmptyBytes, req.Cas, NilBytes, FALSE)},
                {}, sent)

\* A set-config body is nil, text that is no JSON, or the JSON of a config.
NilBody == [json |-> "nil"]
BadJson == [json |-> "invalid"]
ConfigJson(min, max) == [json |-> "config", config |-> VBConfig(min, max)]

vbSetConfig(v, req) ==
    IF req.Body.json = "config"
    THEN Handled([v EXCEPT !.config = {req.Body.config}], {StatusResponse(SUCCESS)}, {}, <<>>)
    ELSE Handled(v, {StatusResponse(EINVAL)}, {}, <<>>)

\* What vbSet does to the stats: a set that stores a key that was not there
\* counts one more item.
vbSetStats(v, req, st) ==
    LET old == TreapGet(v.items, Item(req.Key, 0, NilBytes))
    IN  IF checkRange(v, req) # {} \/ SetCasMismatch(old, req.Cas) THEN st
        ELSE IF old = {} THEN [st EXCEPT !.Items = @ + 1]
        ELSE st

\* What vbDelete does to the stats: a delete that finds its key counts one
\* item less, before it tests the request CAS.  (The counter is kept as an
\* integer here; below 0 the code's unsigned counter wraps around.)
vbDeleteStats(v, req, st) ==
    LET x == TreapGet(v.items, Item(req.Key, 0, NilBytes))
    IN  IF checkRange(v, req) # {} THEN st
        ELSE IF x # {} THEN [st EXCEPT !.Items = @ - 1]
        ELSE st

\* ------------------------------------------------------------- split range

VBSplitRangePart(vbucketId, min, max) ==
    [VBucketId |-> vbucketId, MinKeyInclusive |-> min, MaxKeyExclusive |-> max]

RECURSIVE SortSplits(_)
\* sort.Sort(VBSplitRangeParts(sr.Splits)): ascending by VBucketId (an
\* insertion sort for lists this short).
SortSplits(splits) ==
    IF Len(splits) <= 1 THEN splits
    ELSE LET n      == Len(splits)
             x      == splits[n]
             sorted == SortSplits(SubSeq(splits, 1, n - 1))
             before == SelectSeq(sorted, LAMBDA y : y.VBucketId <= x.VBucketId)
             after  == SelectSeq(sorted, LAMBDA y : y.VBucketId > x.VBucketId)
         IN  before \o <<x>> \o after

RECURSIVE ValidateSplits(_, _, _)
\* The validation loop of splitRange over the sorted splits: the response of
\* the first split that fails, none if all pass.
ValidateSplits(v, splits, max) ==
    IF splits = <<>> THEN {}
    ELSE LET split == Head(splits)
         IN  IF split.VBucketId < 0 \/ split.VBucketId >= MAX_VBUCKET
             THEN {MCResponse(EINVAL, EmptyBytes, 0, "vbucket id out of range", FALSE)}
             ELSE IF split.VBucketId <= max \/ split.VBucketId = v.vbid
             THEN {MCResponse(EINVAL, EmptyBytes, 0, "vbucket id is duplicate", FALSE)}
             ELSE ValidateSplits(v, Tail(splits), split.VBucketId)

\* A split-range body is nil, text that is no JSON, or the JSON of the splits.
SplitsJson(splits) == [json |-> "splits", splits |-> splits]

\* vbSplitRange and splitRange up to the call of splitRangeActual: the response
\* of a request that is refused, none if the split goes ahead.
splitRange(v, req) ==
    IF req.Body.json = "nil" THEN {StatusResponse(EINVAL)}
    ELSE IF req.Body.json # "splits"
    THEN {MCResponse(EINVAL, EmptyBytes, 0, "Error decoding split-range json", FALSE)}
    ELSE IF Len(req.Body.splits) < 1
    THEN {MCResponse(EINVAL, EmptyBytes, 0, "Error need at least 1 splits", FALSE)}
    ELSE ValidateSplits(v, SortSplits(req.Body.splits), -1)

\* The two tests of treeRangeCopy's visitor: TRUE if the item is passed over.
OutsideSplit(key, minKeyInclusive, maxKeyExclusive) ==
    \/ Len(minKeyInclusive) > 0 /\ BytesCompare(key, minKeyInclusive) < 0
    \/ Len(maxKeyExclusive) > 0 /\ BytesCompare(key, maxKeyExclusive) >= 0

RECURSIVE RangeCopyVisitor(_, _, _, _)
\* The visitor of treeRangeCopy over the visited items.  For an item in the
\* range it calls dst.Upsert(x, rand.Int()) and does not keep the treap that
\* Upsert returns, so dst is after the visit what it was before.
RangeCopyVisitor(visited, dst, minKeyInclusive, maxKeyExclusive) ==
    IF visited = <<>> THEN dst
    ELSE LET x        == Head(visited)
             upserted == Upsert(dst, x)
             kept     == IF OutsideSplit(x.key, minKeyInclusive, maxKeyExclusive)
                         THEN dst
                         ELSE dst   \* upserted is dropped
         IN  RangeCopyVisitor(Tail(visited), kept, minKeyInclusive, maxKeyExclusive)

treeRangeCopy(src, dst, minItem, minKeyInclusive, maxKeyExclusive) ==
    RangeCopyVisitor(VisitAscend(src, minItem), dst, minKeyInclusive, maxKeyExclusive)

\* The copy without the counter.
rangeCopyTo_keepsCas(v, dst, minKeyInclusive, maxKeyExclusive) ==
    [dst EXCEPT
       !.items = treeRangeCopy(v.items, NewTreap("KeyLess"), TreapMin(v.items),
                               minKeyInclusive, maxKeyExclusive),
       !.changes = treeRangeCopy(v.changes, NewTreap("CASLess"), TreapMin(v.changes),
                                 minKeyInclusive, maxKeyExclusive),
       !.state = v.state,
       !.config = {VBConfig(minKeyInclusive, maxKeyExclusive)}]

\* v.rangeCopyTo(dst, ...): the destination as the copy leaves it.
rangeCopyTo(v, dst, minKeyInclusive, maxKeyExclusive) ==
    [dst EXCEPT
       !.items = treeRangeCopy(v.items, NewTreap("KeyLess"), TreapMin(v.items),
                               minKeyInclusive, maxKeyExclusive),
       !.changes = treeRangeCopy(v.changes, NewTreap("CASLess"), TreapMin(v.changes),
                                 minKeyInclusive, maxKeyExclusive),
       !.cas = v.cas,
       !.state = v.state,
       !.config = {VBConfig(minKeyInclusive, maxKeyExclusive)}]

\* The callback copying whatever the response says.
copyOnSuccess_always(res, v, dst, part) ==
    rangeCopyTo(v, dst, part.MinKeyInclusive, part.MaxKeyExclusive)

\* The end of the Apply callback of a split, after transferSplits has returned:
\* the range is copied if the response says success.
copyOnSuccess(res, v, dst, part) ==
    IF res.Status = SUCCESS
    THEN rangeCopyTo(v, dst, part.MinKeyInclusive, part.MaxKeyExclusive)
    ELSE dst

\* The reset without the state.
resetSource_alive(v) ==
    [v EXCEPT !.items = NewTreap("KeyLess"),
              !.changes = NewTreap("CASLess"),
              !.config = {VBConfig(EmptyBytes, EmptyBytes)}]

\* The end of splitRangeActual on success: the source as the reset leaves it.
resetSource(v) ==
    [v EXCEPT !.items = NewTreap("KeyLess"),
              !.changes = NewTreap("CASLess"),
              !.state = VBDead,
              !.config = {VBConfig(EmptyBytes, EmptyBytes)}]

\* parent.CreateVBucket(vbid): a new vbucket under a free id; an id in use
\* keeps its vbucket (and getVBucket then finds that one).
CreateVBucket(vbs, vbid) ==
    IF vbs[vbid].exists THEN vbs ELSE [vbs EXCEPT ![vbid] = newVBucket(vbid)]

\* The handlers of the dispatch table that answer within the actor's step.
dispatch(v, req) ==
    CASE req.Opcode \in {"GET", "GETK", "GETQ", "GETKQ"} -> vbGet(v, req)
      [] req.Opcode \in {"SET", "SETQ"} -> vbSet(v, req)
      [] req.Opcode \in {"DELETE", "DELETEQ"} -> vbDelete(v, req)
      [] req.Opcode = "CHANGES_SINCE" -> vbChangesSince(v, req)
      [] req.Opcode = "SET_VBUCKET_CONFIG" -> vbSetConfig(v, req)

\* ------------------------------------------------------------ sequence hub
\* The hub of sequence subscriptions (newSequencePubSub): per key the highest
\* value published, and the subscriptions waiting for it to reach their
\* thresholds.

SeqKeys == {"a", "b"}
\* The values published and the thresholds subscribed with.
SeqValues == 1 .. 3

i64max(a, b) == IF a > b THEN a ELSE b

\* An operation handed to the hub's task, and the key it names.
HubOp(op, key) == [op |-> op, key |-> key]

\* A subscription: its key and threshold, whether the hub still holds it
\* ("waiting"), has sent to it and dropped it ("fired") or has closed its
\* channel ("closed"), and the values its channel has carried.
Subscription(key, threshold) ==
    [key |-> key, threshold |-> threshold, state |-> "waiting", got |-> <<>>]

\* The threshold is met by the key's highest value.
Crossed(hi, sub) == \E h \in hi : h >= sub.threshold

\* A send of the subscription's threshold.
Fire_threshold(hi, sub) ==
    [sub EXCEPT !.state = "fired", !.got = @ \o <<sub.threshold>>]

\* The hub sends the key's highest value to the subscriber and drops the
\* subscription.
Fire(hi, sub) ==
    [sub EXCEPT !.state = "fired", !.got = @ \o <<CHOOSE h \in hi : TRUE>>]

\* A merge that takes the value published.
Merge_rewinds(hi, v) == {v}

\* The highest value after pub(key, v): it never rewinds.
Merge(hi, v) == IF hi = {} THEN {v} ELSE {i64max(CHOOSE h \in hi : TRUE, v)}

\* A delivery that does not look at the subscription's key.
Deliver_anyKey(subs, key, hi) ==
    [i \in DOMAIN subs |->
        IF subs[i].state = "waiting" /\ Crossed(hi, subs[i])
        THEN Fire(hi, subs[i]) ELSE subs[i]]

\* The subscriptions after a publish on key left hi as its highest value.
Deliver(subs, key, hi) ==
    [i \in DOMAIN subs |->
        IF subs[i].key = key /\ subs[i].state = "waiting" /\ Crossed(hi, subs[i])
        THEN Fire(hi, subs[i]) ELSE subs[i]]

\* A close that leaves the channels open.
CloseAll_none(subs, keys) == subs

\* The subscriptions after the channels of the waiting ones among those of
\* the keys are closed.
CloseAll(subs, keys) ==
    [i \in DOMAIN subs |->
        IF subs[i].key \in keys /\ subs[i].state = "waiting"
        THEN [subs[i] EXCEPT !.state = "closed"] ELSE subs[i]]

\* ------------------------------------------------------------ view refresh
\* The view refresh engine of a partition: the design documents of its
\* bucket, its views store (the back-index and the view indexes), and the
\* refresh that brings the store up to the partition's change log.

\* Document bodies: two tagged documents and the JSON value null.
DocX == "{\"tag\":\"x\"}"
DocY == "{\"tag\":\"y\"}"
DocNull == "null"

\* GetDDocs: no design documents, or one design document "d" with one view
\* "v" whose map function is  function (doc, meta) { emit(doc.tag, 1) };
\* the views are named "ddocId/viewId".
NoDDocs == {}
TagDDocs == {"d/v"}

\* What emit() is given for a property the document does not have.
Undefined == "null"

ViewRow(id, key, value) == [Id |-> id, Key |-> key, Value |-> value]

\* The document handed to the map function: the body parsed as JSON, or, when
\* it does not parse (a tombstone's nil data), its base64 string.
ViewDoc(data) ==
    IF data = NilBytes THEN [type |-> "base64", null |-> FALSE, tag |-> {}]
    ELSE IF data = DocNull THEN [type |-> "json", null |-> TRUE, tag |-> {}]
    ELSE [type |-> "json", null |-> FALSE,
          tag |-> IF data = DocX THEN {"x"} ELSE IF data = DocY THEN {"y"} ELSE {}]

\* The call of the map function: reading doc.tag of null throws; a document
\* without a tag emits undefined.
TagMap(doc) ==
    IF doc.null THEN [err |-> TRUE, emits |-> <<>>]
    ELSE [err |-> FALSE,
          emits |-> <<ViewRow("", IF doc.tag = {} THEN Undefined
                                  ELSE CHOOSE t \in doc.tag : TRUE, 1)>>]

\* execViewMapFunction: the emits of the view for the item, each given the
\* item's key as its id.
execViewMapFunction(view, i) ==
    LET out == TagMap(ViewDoc(i.data))
    IN  [err |-> out.err,
         emits |-> [n \in DOMAIN out.emits |-> [out.emits[n] EXCEPT !.Id = i.key]]]

\* vindexKey: the emit key and the document id, joined by a zero byte.
vindexKey(docId, emitKey) == <<emitKey, docId>>

\* The keys of the rows the emits of a document occupy in the index of view.
EmitKeys(docId, viewEmits, view) ==
    IF view \in DOMAIN viewEmits
    THEN {vindexKey(docId, viewEmits[view][n].Key) : n \in DOMAIN viewEmits[view]}
    ELSE {}

\* A clear that leaves the rows where they are.
vindexesClear_none(vindexes, docId, viewEmits) == vindexes

\* vindexesClear: the view indexes without the rows of the emits.
vindexesClear(vindexes, docId, viewEmits) ==
    {r \in vindexes : r.key \notin EmitKeys(docId, viewEmits, r.view)}

\* vindexesSet: the view indexes with a row per emit, a later emit with the
\* same key replacing an earlier one.
vindexesSet(vindexes, docId, viewEmits) ==
    {r \in vindexes : r.key \notin EmitKeys(docId, viewEmits, r.view)}
    \cup UNION {{[view |-> view,
                   key |-> vindexKey(docId, viewEmits[view][n].Key),
                   val |-> viewEmits[view][n].Value] :
                     n \in {m \in DOMAIN viewEmits[view] :
                              \A l \in DOMAIN viewEmits[view] :
                                 viewEmits[view][l].Key = viewEmits[view][m].Key
                                    => l <= m}} :
                 view \in DOMAIN viewEmits}

\* newBucketStore: a views store with an empty back-index (its items by key
\* and by CAS) and empty view indexes.
newBucketStore ==
    [keys |-> NewTreap("KeyLess"), changes |-> NewTreap("CASLess"), vindexes |-> {}]

\* backIndex.get(key)
BackIndexGet(store, key) == TreapGet(store.keys, Item(key, 0, NilBytes))

\* backIndex.setWithCallback(new, old, transition): the back-index swaps the
\* document's record and the transition rewrites the document's rows.
setWithCallback(store, new, vindexes) ==
    [keys |-> Upsert(store.keys, new), changes |-> Upsert(store.changes, new),
     vindexes |-> vindexes]

\* viewsRefreshItem: the store after the views are refreshed for one item of
\* the change log, or the error of a map function, which leaves the store
\* as it was.
viewsRefreshItem(ddocs, store, i) ==
    LET old == BackIndexGet(store, i.key)
        outs == [view \in ddocs |-> execViewMapFunction(view, i)]
        viewEmits == [view \in ddocs |-> outs[view].emits]
        cleared == IF old = {} THEN store.vindexes
                   ELSE vindexesClear(store.vindexes, i.key,
                                      (CHOOSE b \in old : TRUE).data)
    IN  IF \E view \in ddocs : outs[view].err
        THEN [err |-> TRUE, store |-> store]
        ELSE [err |-> FALSE,
              store |-> setWithCallback(store, Item(i.key, i.cas, viewEmits),
                                        vindexesSet(cleared, i.key, viewEmits))]

\* The highest CAS of the back-index's change log (backIndexChanges.MaxItem),
\* none if the back-index is empty.
BackIndexLastChange(store) ==
    {b.cas : b \in {x \in store.changes.elems :
                       \A y \in store.changes.elems : y.cas <= x.cas}}

\* backIndexLastChangeNum: the watermark, 0 when the back-index is empty.
BackIndexLastChangeNum(store) ==
    IF BackIndexLastChange(store) = {} THEN 0
    ELSE CHOOSE c \in BackIndexLastChange(store) : TRUE

\* A visitor that takes no item for indexed.
AlreadyIndexed_never(i, watermark) == FALSE

\* The visitor's test of an item against the watermark.
AlreadyIndexed(i, watermark) == i.cas <= watermark

\* visitChanges(start, ...): the partition's changes from the start CAS on, in
\* ascending order; all of them when there is no start.
visitChanges(changes, start) ==
    Ascending(changes, {x \in changes.elems : \A c \in start : c <= x.cas})

RECURSIVE RefreshVisitor(_, _, _, _, _)
\* The visitor of viewsRefresh_unlocked over the items still to visit: it
\* passes over metadata changes and indexed items, refreshes the views for
\* the others and stops at the first error.  visited are the CAS values of
\* the items it has refreshed the views for, or tried to.
RefreshVisitor(items, ddocs, store, watermark, visited) ==
    IF items = <<>> THEN [err |-> FALSE, store |-> {store}, visited |-> visited]
    ELSE LET i == Head(items)
             r == viewsRefreshItem(ddocs, store, i)
         IN  IF Len(i.key) = 0 \/ AlreadyIndexed(i, watermark)
             THEN RefreshVisitor(Tail(items), ddocs, store, watermark, visited)
             ELSE IF r.err
             THEN [err |-> TRUE, store |-> {r.store}, visited |-> Append(visited, i.cas)]
             ELSE RefreshVisitor(Tail(items), ddocs, r.store, watermark,
                                 Append(visited, i.cas))

\* viewsRefresh_unlocked: nothing to do without design documents; an error
\* if the views store cannot be opened (openFails: it is opened when first
\* needed); else the visit of the partition's changes above the watermark.
\* viewsStore is the partition's views store, none before it is opened.
viewsRefresh_unlocked(v, ddocs, viewsStore, openFails) ==
    IF ddocs = NoDDocs THEN [err |-> FALSE, store |-> viewsStore, visited |-> <<>>]
    ELSE IF viewsStore = {} /\ openFails
    THEN [err |-> TRUE, store |-> viewsStore, visited |-> <<>>]
    ELSE LET store == IF viewsStore = {} THEN newBucketStore
                      ELSE CHOOSE s \in viewsStore : TRUE
         IN  RefreshVisitor(visitChanges(v.changes, BackIndexLastChange(store)),
                            ddocs, store, BackIndexLastChangeNum(store), <<>>)

\* viewsRefresh, from its snapshot d of the staleness on: the refresh, and
\* the staleness left, which an error leaves as it was and reports as 0.
viewsRefresh(v, ddocs, viewsStore, staleness, d, openFails) ==
    LET r == viewsRefresh_unlocked(v, ddocs, viewsStore, openFails)
    IN  [err |-> r.err, store |-> r.store, visited |-> r.visited,
         staleness |-> IF r.err THEN staleness ELSE staleness - d,
         leftovers |-> IF r.err THEN 0 ELSE staleness - d]

\* ------------------------------------------------------- the bucket registry
\* Buckets: the map from names to buckets behind the registry lock.  An
\* entry is absent, a nil placeholder (a quiesced bucket) or a bucket; a
\* bucket is a livebucket or another implementation of Bucket, is open or
\* closed, and a livebucket has an activity counter.

BucketNames == {"b1", "b2"}

\* The bucket NewBucket makes.
NewBucket(live) == [live |-> live, closed |-> FALSE, activity |-> 0]

\* No entry under a name, and the entry of a bucket (none: the placeholder).
NoEntry == [ok |-> FALSE, bucket |-> {}]
Entry(bucket) == [ok |-> TRUE, bucket |-> bucket]

\* NewBuckets: no buckets, and no quiescer registered with quiescePeriodic.
NewBuckets ==
    [buckets |-> [n \in BucketNames |-> NoEntry],
     quiescers |-> [n \in BucketNames |-> 0]]

\* What an operation of the registry hands back: the registry as it leaves
\* it, the bucket it returns (none: nil) and whether it returns an error.
Returned(b, rv, err) == [b |-> b, rv |-> rv, err |-> err]

\* bucket.Close()
CloseBucket(bucket) == [bucket EXCEPT !.closed = TRUE]

\* register_unlocked: a quiescer for the name is registered with the periodic
\* driver and the bucket is put under the name.
register_unlocked(b, name, bucket) ==
    [buckets |-> [b.buckets EXCEPT ![name] = Entry({bucket})],
     quiescers |-> [b.quiescers EXCEPT ![name] = @ + 1]]

\* new_unlocked: an error if the name has a bucket or the bucket cannot be
\* allocated (allocFails); else the new bucket is registered.
BucketsNew(b, name, live, allocFails) ==
    IF b.buckets[name].bucket # {} \/ allocFails THEN Returned(b, {}, TRUE)
    ELSE Returned(register_unlocked(b, name, NewBucket(live)), {NewBucket(live)}, FALSE)

\* loadBucket_unlocked: an error if the name has a bucket or the bucket cannot
\* be allocated or loaded (loadFails); else the loaded bucket is registered.
loadBucket_unlocked(b, name, live, loadFails) ==
    IF b.buckets[name].bucket # {} \/ loadFails THEN Returned(b, {}, TRUE)
    ELSE Returned(register_unlocked(b, name, NewBucket(live)), {NewBucket(live)}, FALSE)

\* Get: the bucket under the name; nil if there is no entry; for a nil
\* placeholder the bucket is loaded again, and nil is returned if that fails.
BucketsGet(b, name, live, loadFails) ==
    IF b.buckets[name].bucket # {} THEN Returned(b, b.buckets[name].bucket, FALSE)
    ELSE IF ~b.buckets[name].ok THEN Returned(b, {}, FALSE)
    ELSE LET loaded == loadBucket_unlocked(b, name, live, loadFails)
         IN  Returned(loaded.b, loaded.rv, FALSE)

\* Close(name, purgeFiles): an error if there is no entry; else the bucket,
\* if there is one, is closed and the entry deleted.
BucketsClose(b, name) ==
    IF ~b.buckets[name].ok THEN Returned(b, {}, TRUE)
    ELSE Returned([b EXCEPT !.buckets[name] = NoEntry], {}, FALSE)

\* A test that takes every activity for none.
Active_never(val) == FALSE

\* The test of maybeQuiesce on the activity it observed.
Active(val) == val > 0

\* maybeQuiesce with the registry lock held, val being the activity it
\* observes: whether the bucket is closed (closed), and whether the call
\* comes to an end (a bucket that is no livebucket is handed to Close, which
\* waits for the registry lock its caller holds).
maybeQuiesce(b, name, val) ==
    LET e == b.buckets[name]
        bucket == CHOOSE x \in e.bucket : TRUE
    IN  IF e.bucket = {} THEN [b |-> b, closed |-> TRUE, ends |-> TRUE]
        ELSE IF ~bucket.live THEN [b |-> b, closed |-> TRUE, ends |-> FALSE]
        ELSE IF Active(val)
        THEN [b |-> [b EXCEPT !.buckets[name] =
                         Entry({[bucket EXCEPT !.activity = @ - val]})],
              closed |-> FALSE, ends |-> TRUE]
        ELSE [b |-> [b EXCEPT !.buckets[name] = Entry({})],
              closed |-> TRUE, ends |-> TRUE]

\* makeQuiescer: what the quiescer answers the periodic driver.
Quiescer(closed) == ~closed

\* CloseAll: every entry's bucket is closed; the call of Close on a nil
\* placeholder panics.  The entries are visited in no fixed order: done are
\* the names visited before the panic, all of them if there is none.
BucketsCloseAll(b, done) ==
    [b |-> [b EXCEPT !.buckets =
               [n \in BucketNames |->
                   IF n \in done /\ b.buckets[n].bucket # {}
                   THEN Entry({CloseBucket(CHOOSE x \in b.buckets[n].bucket : TRUE)})
                   ELSE b.buckets[n]]],
     panics |-> \E n \in BucketNames : b.buckets[n].ok /\ b.buckets[n].bucket = {}]

\* periodicViewsRefresh: what the refresh function answers the periodic
\* driver, given what viewsRefresh returned as left over.
periodicViewsRefresh(leftovers) == leftovers > 0

\* The periodic driver after it has called a registered function: it keeps
\* the registration if the function answered true and drops it otherwise.
Reschedule(answer) == answer

\* ------------------------------------------------------------------- state

VARIABLES
    vbuckets,   \* the bucket's vbuckets, by vbucket id
    split,      \* per vbucket: the split-range its actor is carrying out (with the
                \* destinations it has copied to so far)
    lockedBy,   \* per vbucket: the source whose Apply callback its actor runs, or -1
    observer,   \* per vbucket: the mutation last submitted to its broadcaster
    last,       \* the step just taken: its request, response, mutation, stream
    scen,       \* how far the steps so far follow Scenario (-1: they do not)
    requests,   \* the number of requests sent to the bucket so far
    hubHi,      \* sequence hub, per key: the highest value published (none: {})
    hubSubs,    \* sequence hub: the subscriptions made so far, in order, each
                \* with what its channel has carried
    hubStopped, \* sequence hub: stop() was called
    hubLast,    \* sequence hub: the operation just handled
    hubEver,    \* sequence hub, per key: whether the key was ever deleted and,
                \* while it was not, the highest value ever published (0: none);
                \* the highest value delivered since the key's last delete
    ddocs,      \* views: the design documents of the bucket (none: {})
    viewsStore, \* views: the views store of vbucket 0 (not opened yet: {})
    staleness,  \* views: the staleness counter of vbucket 0
    registered, \* views: the refresh of vbucket 0 is registered with the
                \* periodic driver viewsRefresher
    answered,   \* views: what periodicViewsRefresh has answered and the driver
                \* has not acted on yet (none or one; with the refresh's error)
    erred,      \* views: a viewsRefresh has returned an error
    refreshing, \* views: the viewsRefresh that holds the views lock, with its
                \* snapshot of the staleness and who called it (none: {})
    viewLast,   \* views: the step just taken; for a refresh its error and the
                \* items it visited; the outcome of the latest refresh if no
                \* mutation came after it (settled)
    registry,   \* registry: the entries of Buckets and, per name, the number of
                \* quiescers registered with quiescePeriodic
    regLock,    \* registry: the quiescer tick that holds the registry lock, with
                \* the activity it observed and whether it waits for the lock
                \* it holds itself (none: {}); other operations hold the
                \* lock within their step
    regLast,    \* registry: the operation just carried out and what it returned
    regEver,    \* registry, per name: "never" registered, "registered", or
                \* "removed" by Close since it was last registered
    crashed,    \* registry: an operation has panicked
    suspended,  \* actor of vbucket 0: the suspended flag
    achClosed,  \* actor of vbucket 0: Close has closed the apply channel
    actor,      \* actor of vbucket 0: the loop its goroutine is in ("service",
                \* "serviceSuspended"), or "returned"
    stats       \* the stats of vbucket 0: its Items counter

partitionVars == <<vbuckets, split, lockedBy, observer, last, scen, requests>>

hubVars == <<hubHi, hubSubs, hubStopped, hubLast, hubEver>>

viewVars == <<ddocs, viewsStore, staleness, registered, answered, erred, refreshing, viewLast>>

regVars == <<registry, regLock, regLast, regEver, crashed>>

actorVars == <<suspended, achClosed, actor>>

vars == <<partitionVars, hubVars, viewVars, regVars, actorVars, stats>>

\* The record of a step of the view engine: for a viewsRefresh that returned,
\* its error and the CAS values of the items it visited; settled is the
\* outcome of the latest viewsRefresh that returned (its error, the design
\* documents it ran with), if there is one and no mutation came after it.
ViewStep(op, err, visited, settled) ==
    [op |-> op, err |-> err, visited |-> visited, settled |-> settled]

\* The record of an operation of the registry: its name, the bucket name it
\* was given, the bucket it returned (none: nil) and whether it returned an
\* error (for a tick: whether maybeQuiesce reported the bucket closed; for
\* Get, which returns no error: whether loading the bucket again failed).
RegStep(op, name, rv, err) == [op |-> op, name |-> name, rv |-> rv, err |-> err]

NoSplit ==
    [active |-> FALSE, splits |-> <<>>, idx |-> 0, phase |-> "none",
     res |-> StatusResponse(EINVAL), copied |-> {}]

\* The record of a step: the request (with its body if it is a set), the
\* response (if one is sent), the mutation submitted to the broadcaster (if
\* any) and the responses streamed before the final one.
Step(vb, req, res, msg, stream) ==
    [vb |-> vb,
     req |-> MCRequest(req.Opcode, req.Key,
                       IF req.Opcode \in {"SET", "SETQ"} THEN req.Body ELSE NilBytes,
                       req.Cas, req.failAt),
     res |-> res, msg |-> msg, stream |-> stream]

\* A step that is no client request.
Internal(name) == MCRequest(name, EmptyBytes, NilBytes, 0, 0)

\* The command sequence of the basic round trip, sent to vbucket 0.
Scenario ==
    << MCRequest("SET", KeyA, "1", 0, 0),
       MCRequest("GET", KeyA, NilBytes, 0, 0),
       MCRequest("SET", KeyA, "2", 0, 0),
       MCRequest("SET", KeyA, "9", 0, 0),
       MCRequest("DELETE", KeyA, NilBytes, 1, 0),
       MCRequest("GET", KeyA, NilBytes, 0, 0) >>

Follows(s, vb, req) ==
    IF s >= 0 /\ s < Len(Scenario) /\ vb = 0 /\ req = Scenario[s + 1]
    THEN s + 1 ELSE -1

Init ==
    /\ vbuckets = [p \in VBIDs |-> IF p = 0 THEN newVBucket(p) ELSE NoVBucket(p)]
    /\ split = [p \in VBIDs |-> NoSplit]
    /\ lockedBy = [p \in VBIDs |-> -1]
    /\ observer = [p \in VBIDs |-> {}]
    /\ last = Step(0, Internal("newVBucket"), {}, {}, <<>>)
    /\ scen = 0
    /\ requests = 0
    /\ hubHi = [k \in SeqKeys |-> {}]
    /\ hubSubs = <<>>
    /\ hubStopped = FALSE
    /\ hubLast = HubOp("newSequencePubSub", "")
    /\ hubEver = [k \in SeqKeys |-> [hi |-> 0, deleted |-> FALSE, delivered |-> 0]]
    /\ ddocs = NoDDocs
    /\ viewsStore = {}
    /\ staleness = 0
    /\ registered = FALSE
    /\ answered = {}
    /\ erred = FALSE
    /\ refreshing = {}
    /\ viewLast = ViewStep("newVBucket", FALSE, <<>>, {})
    /\ registry = NewBuckets
    /\ regLock = {}
    /\ regLast = RegStep("NewBuckets", "", {}, FALSE)
    /\ regEver = [n \in BucketNames |-> "never"]
    /\ crashed = FALSE
    /\ suspended = FALSE
    /\ achClosed = FALSE
    /\ actor = "service"
    /\ stats = [Items |-> 0]

\* The actor of p is in its select loop, ready to receive on either channel.
Idle(p) == vbuckets[p].exists /\ ~split[p].active /\ lockedBy[p] = -1

\* The mutation the handler returned is dropped.
Submit_dropped(observed, msg) == observed

\* if msg != nil { v.observer.Submit(*msg) }: the event the partition's
\* broadcaster was given last.
Submit(observed, msg) == IF msg = {} THEN observed ELSE msg

\* service: the actor of p receives a request, runs its handler, broadcasts the
\* mutation the handler returned and responds.
Dispatch(p, req) ==
    /\ Idle(p)
    /\ LET out == dispatch(vbuckets[p], req)
       IN  /\ out.v.cas <= MaxCas
           /\ vbuckets' = [vbuckets EXCEPT ![p] = out.v]
           /\ observer' = [observer EXCEPT ![p] = Submit(observer[p], out.msg)]
           /\ last' = Step(p, req, out.res, out.msg, out.stream)
    /\ scen' = Follows(scen, p, req)
    /\ UNCHANGED <<split, lockedBy>>

Get(p, op, key) == Dispatch(p, MCRequest(op, key, NilBytes, 0, 0))

Set(p, op, key, body, cas) == Dispatch(p, MCRequest(op, key, body, cas, 0))

Delete(p, op, key, cas) == Dispatch(p, MCRequest(op, key, NilBytes, cas, 0))

ChangesSince(p, cas, failAt) ==
    Dispatch(p, MCRequest("CHANGES_SINCE", EmptyBytes, NilBytes, cas, failAt))

SetConfig(p, body) ==
    Dispatch(p, MCRequest("SET_VBUCKET_CONFIG", EmptyBytes, body, 0, 0))

\* SetVBState: an Apply callback that sets the state.
SetVBState(p, newState) ==
    /\ Idle(p)
    /\ vbuckets' = [vbuckets EXCEPT ![p].state = newState]
    /\ last' = Step(p, Internal("SetVBState"), {}, {}, <<>>)
    /\ scen' = -1
    /\ UNCHANGED <<split, lockedBy, observer>>

\* SPLIT_RANGE: the actor of p receives the request and validates it.  A refused
\* request is answered at once; otherwise splitRangeActual starts with the
\* sorted splits and the EINVAL response it begins with.
SplitRange(p, body) ==
    /\ Idle(p)
    /\ LET req == MCRequest("SPLIT_RANGE", EmptyBytes, body, 0, 0)
           refused == splitRange(vbuckets[p], req)
       IN  IF refused # {}
           THEN /\ split' = split
                /\ last' = Step(p, req, refused, {}, <<>>)
           ELSE /\ split' = [split EXCEPT ![p] =
                               [active |-> TRUE, splits |-> SortSplits(body.splits),
                                idx |-> 0, phase |-> "enter",
                                res |-> StatusResponse(EINVAL), copied |-> {}]]
                /\ last' = Step(p, Internal("splitRangeActual"), {}, {}, <<>>)
    /\ scen' = -1
    /\ UNCHANGED <<vbuckets, lockedBy, observer>>

\* transferSplits(idx) begins: past the last split it marks success and
\* returns; otherwise it creates the destination if its id is free and goes on
\* to Apply on it.
TransferEnter(p) ==
    /\ split[p].active /\ split[p].phase = "enter"
    /\ IF split[p].idx >= Len(split[p].splits)
       THEN /\ split' = [split EXCEPT ![p].res = StatusResponse(SUCCESS),
                                      ![p].phase = "return"]
            /\ vbuckets' = vbuckets
       ELSE /\ split' = [split EXCEPT ![p].phase = "apply"]
            /\ vbuckets' = CreateVBucket(vbuckets, split[p].splits[split[p].idx + 1].VBucketId)
    /\ last' = Step(p, Internal("transferSplits"), {}, {}, <<>>)
    /\ scen' = -1
    /\ UNCHANGED <<lockedBy, observer>>

\* vb.Apply: the destination's actor receives the callback.  On a dead
\* destination the callback recurses into the next split and keeps the
\* destination's actor until the recursion returns; on any other it sets the
\* EINVAL response and returns.
TransferApply(p) ==
    /\ split[p].active /\ split[p].phase = "apply"
    /\ LET d == split[p].splits[split[p].idx + 1].VBucketId
       IN  /\ Idle(d)
           /\ IF vbuckets[d].state = VBDead
              THEN /\ lockedBy' = [lockedBy EXCEPT ![d] = p]
                   /\ split' = [split EXCEPT ![p].idx = @ + 1, ![p].phase = "enter"]
              ELSE /\ lockedBy' = lockedBy
                   /\ split' = [split EXCEPT
                        ![p].res = MCResponse(EINVAL, EmptyBytes, 0,
                                              "Error split-range, state not initially dead",
                                              FALSE),
                        ![p].phase = "return"]
    /\ last' = Step(p, Internal("Apply"), {}, {}, <<>>)
    /\ scen' = -1
    /\ UNCHANGED <<vbuckets, observer>>

\* transferSplits(idx) has returned into the callback of split idx: on success
\* the callback copies the range to its destination; then it ends, which
\* frees the destination's actor, and transferSplits(idx-1) returns.
TransferReturn(p) ==
    /\ split[p].active /\ split[p].phase = "return" /\ split[p].idx > 0
    /\ LET part == split[p].splits[split[p].idx]
           d    == part.VBucketId
       IN  /\ vbuckets' = [vbuckets EXCEPT
                              ![d] = copyOnSuccess(split[p].res, vbuckets[p], vbuckets[d], part)]
           /\ lockedBy' = [lockedBy EXCEPT ![d] = -1]
           /\ split' = [split EXCEPT ![p].idx = @ - 1,
                                     ![p].copied = IF split[p].res.Status = SUCCESS
                                                   THEN @ \cup {d} ELSE @]
    /\ last' = Step(p, Internal("rangeCopyTo"), {}, {}, <<>>)
    /\ scen' = -1
    /\ UNCHANGED observer

\* transferSplits(0) has returned: on success the source is reset; the
\* response is sent.
SplitRangeDone(p) ==
    /\ split[p].active /\ split[p].phase = "return" /\ split[p].idx = 0
    /\ vbuckets' = IF split[p].res.Status = SUCCESS
                   THEN [vbuckets EXCEPT ![p] = resetSource(vbuckets[p])]
                   ELSE vbuckets
    /\ split' = [split EXCEPT ![p] = NoSplit]
    /\ last' = Step(p, MCRequest("SPLIT_RANGE", EmptyBytes, NilBytes, 0, 0),
                    {split[p].res}, {}, <<>>)
    /\ scen' = -1
    /\ UNCHANGED <<lockedBy, observer>>

\* ------------------------------------------------- the bucket's partitions

Keys == {KeyA, KeyZ}
RangeBounds == {EmptyBytes, KeyN}

\* The two ways a request cuts the keys at "n" among its destinations: the
\* lowest destination gets the keys below "n" and the others the keys from
\* "n" on, or the other way round.
SplitCuts == {<<VBConfig(EmptyBytes, KeyN), VBConfig(KeyN, EmptyBytes)>>,
              <<VBConfig(KeyN, EmptyBytes), VBConfig(EmptyBytes, KeyN)>>}

RECURSIVE Descending(_, _, _)
\* The splits of the destinations S of which low is the lowest, with the
\* ranges of the cut, as a list in descending order of vbucket id.
Descending(S, low, cut) ==
    IF S = {} THEN <<>>
    ELSE LET d == CHOOSE x \in S : \A y \in S : y <= x
             r == IF d = low THEN cut[1] ELSE cut[2]
         IN  <<VBSplitRangePart(d, r.MinKeyInclusive, r.MaxKeyExclusive)>>
             \o Descending(S \ {d}, low, cut)

\* The split lists requests carry: every choice of vbucket ids of the bucket
\* (the source's own among them) with either cut, and lists that are empty,
\* name an id out of range, or name an id twice.
SplitLists ==
    {Descending(S, CHOOSE x \in S : \A y \in S : x <= y, cut) :
        S \in (SUBSET VBIDs) \ {{}}, cut \in SplitCuts}
    \cup {<<>>}
    \cup {<<VBSplitRangePart(id, EmptyBytes, KeyN)>> : id \in {-1, MAX_VBUCKET}}
    \cup {<<VBSplitRangePart(d, EmptyBytes, KeyN), VBSplitRangePart(d, KeyN, EmptyBytes)>> :
              d \in VBIDs}

SplitBodies == {NilBody, BadJson} \cup {SplitsJson(l) : l \in SplitLists}

\* A request a client or operator sends, within the number of requests explored.
Request(A) ==
    /\ requests < MaxRequests /\ A /\ requests' = requests + 1
    /\ UNCHANGED <<hubVars, viewVars, regVars, actorVars, stats>>

\* A step the bucket takes by itself.
Internally(A) == A /\ UNCHANGED <<requests, hubVars, viewVars, regVars, actorVars, stats>>

\* A request that is not counted: where every request is sent to one vbucket,
\* the bound on its CAS counter alone keeps the states finite.
Uncounted(A) == A /\ UNCHANGED <<requests, hubVars, viewVars, regVars, actorVars, stats>>

Next ==
    \/ \E p \in VBIDs, k \in Keys : Request(Set(p, "SET", k, "1", 0))
    \/ \E p \in VBIDs, k \in Keys : Request(Delete(p, "DELETE", k, 0))
    \/ \E p \in VBIDs, st \in {VBActive, VBDead} : Request(SetVBState(p, st))
    \/ \E p \in VBIDs, body \in SplitBodies : Request(SplitRange(p, body))
    \/ \E p \in VBIDs : Internally(TransferEnter(p))
    \/ \E p \in VBIDs : Internally(TransferApply(p))
    \/ \E p \in VBIDs : Internally(TransferReturn(p))
    \/ \E p \in VBIDs : Internally(SplitRangeDone(p))

Spec == Init /\ [][Next]_vars

\* ------------------------------------------- one partition, all its commands

KVKeys == {KeyA, KeyZ}
KVBodies == {"1"}
ReqCas == 0 .. (MaxCas - 1)
FailPlaces == 0 .. 2
ConfigBodies ==
    {NilBody, BadJson} \cup {ConfigJson(min, max) : min \in RangeBounds, max \in RangeBounds}

NextKV ==
    \/ \E op \in {"GET", "GETQ", "GETK"}, k \in KVKeys : Uncounted(Get(0, op, k))
    \/ \E op \in {"SET", "SETQ"}, k \in KVKeys, b \in KVBodies, c \in ReqCas :
          Uncounted(Set(0, op, k, b, c))
    \/ \E op \in {"DELETE", "DELETEQ"}, k \in KVKeys, c \in ReqCas :
          Uncounted(Delete(0, op, k, c))
    \/ \E c \in ReqCas, failAt \in FailPlaces : Uncounted(ChangesSince(0, c, failAt))
    \/ \E body \in ConfigBodies : Uncounted(SetConfig(0, body))

SpecKV == Init /\ [][NextKV]_vars

\* ------------------------------------- one key, the commands of the round trip

RoundTripBodies == {"1", "2", "9"}

NextRoundTrip ==
    \/ Uncounted(Get(0, "GET", KeyA))
    \/ \E b \in RoundTripBodies, c \in {0, 1} : Uncounted(Set(0, "SET", KeyA, b, c))
    \/ \E c \in {0, 1} : Uncounted(Delete(0, "DELETE", KeyA, c))

SpecRoundTrip == Init /\ [][NextRoundTrip]_vars

\* ------------------------------- two keys, two bodies, the sets and deletes

MutationBodies == {"1", "2"}

NextMutations ==
    \/ \E op \in {"SET", "SETQ"}, k \in KVKeys, b \in MutationBodies, c \in {0, 1} :
          Uncounted(Set(0, op, k, b, c))
    \/ \E op \in {"DELETE", "DELETEQ"}, k \in KVKeys, c \in {0, 1} :
          Uncounted(Delete(0, op, k, c))

SpecMutations == Init /\ [][NextMutations]_vars

\* ---------------------------------------------------------- the sequence hub

\* hubEver after the hub went from subs to after on an operation on key: the
\* values newly carried by channels of the key raise the highest delivered.
NoteDelivered(ever, key, subs, after) ==
    LET had(n) == IF n \in DOMAIN subs THEN subs[n].got ELSE <<>>
        new == {after[n].got[Len(after[n].got)] :
                  n \in {i \in DOMAIN after : after[i].key = key /\ after[i].got # had(i)}}
        top == IF new = {} THEN 0 ELSE CHOOSE v \in new : \A w \in new : w <= v
    IN  [ever EXCEPT ![key].delivered = i64max(@, top)]

\* An operation of the hub; the partitions take no step.
OnHub(A) == ~hubStopped /\ A /\ UNCHANGED <<partitionVars, viewVars, regVars, actorVars, stats>>

\* sub(key, threshold): a subscription whose threshold is already met fires
\* at once.
Sub(key, threshold) ==
    /\ Len(hubSubs) < MaxSubs
    /\ LET sub == Subscription(key, threshold)
       IN  hubSubs' = Append(hubSubs, IF Crossed(hubHi[key], sub)
                                      THEN Fire(hubHi[key], sub) ELSE sub)
    /\ hubLast' = HubOp("sub", key)
    /\ hubEver' = NoteDelivered(hubEver, key, hubSubs, hubSubs')
    /\ UNCHANGED <<hubHi, hubStopped>>

\* pub(key, value)
Pub(key, value) ==
    /\ hubHi' = [hubHi EXCEPT ![key] = Merge(@, value)]
    /\ hubSubs' = Deliver(hubSubs, key, hubHi'[key])
    /\ hubLast' = HubOp("pub", key)
    /\ hubEver' = NoteDelivered(IF hubEver[key].deleted THEN hubEver
                                ELSE [hubEver EXCEPT ![key].hi = i64max(@, value)],
                                key, hubSubs, hubSubs')
    /\ UNCHANGED hubStopped

\* delete(key)
HubDelete(key) ==
    /\ hubHi' = [hubHi EXCEPT ![key] = {}]
    /\ hubSubs' = CloseAll(hubSubs, {key})
    /\ hubLast' = HubOp("delete", key)
    /\ hubEver' = [hubEver EXCEPT ![key] = [hi |-> 0, deleted |-> TRUE, delivered |-> 0]]
    /\ UNCHANGED hubStopped

\* stop()
Stop ==
    /\ hubSubs' = CloseAll(hubSubs, SeqKeys)
    /\ hubStopped' = TRUE
    /\ hubLast' = HubOp("stop", "")
    /\ UNCHANGED <<hubHi, hubEver>>

NextSeq ==
    \/ \E k \in SeqKeys, t \in SeqValues : OnHub(Sub(k, t))
    \/ \E k \in SeqKeys, v \in SeqValues : OnHub(Pub(k, v))
    \/ \E k \in SeqKeys : OnHub(HubDelete(k))
    \/ OnHub(Stop)

SpecSeq == Init /\ [][NextSeq]_vars

\* ------------------------------------------------------------- view refresh

\* The partition whose views are refreshed.
ViewVB == 0
\* The documents set: "a" with either tag or as null, "z" with the tag x.
ViewSets == {<<KeyA, DocX>>, <<KeyA, DocY>>, <<KeyA, DocNull>>, <<KeyZ, DocX>>}
\* The documents deleted.
ViewDeletes == {KeyA}

\* A step of the view engine; the hub takes no step.
OnViews(A) == A /\ UNCHANGED <<requests, hubVars, regVars, actorVars, stats>>

\* The bucket is given its design documents.
SetDDocs ==
    /\ ddocs = NoDDocs
    /\ ddocs' = TagDDocs
    /\ viewLast' = ViewStep("SetDDocs", FALSE, <<>>, viewLast.settled)
    /\ UNCHANGED <<partitionVars, viewsStore, staleness, registered, answered, erred,
                   refreshing>>

\* A set or delete sent to the partition; a successful mutation is followed
\* by markStale: the staleness counter goes up by one, and when it reaches 1
\* the refresh is registered with viewsRefresher.
Mutate(req) ==
    /\ Dispatch(ViewVB, req)
    /\ staleness' = IF last'.msg = {} THEN staleness ELSE staleness + 1
    /\ registered' = (registered \/ (last'.msg # {} /\ staleness' = 1))
    /\ viewLast' = ViewStep(IF last'.msg = {} THEN "refused" ELSE "markStale",
                            FALSE, <<>>,
                            IF last'.msg = {} THEN viewLast.settled ELSE {})
    /\ UNCHANGED <<ddocs, viewsStore, answered, erred, refreshing>>

\* A lock that every caller gets at once.
viewsLockFree_always(held) == TRUE

\* v.viewsLock.Lock() goes on when no viewsRefresh holds the lock.
viewsLockFree(held) == held = {}

\* viewsRefresh is entered, by the periodic driver's tick (by = "tick", if the
\* refresh is registered and the driver is not in its call of it) or by a
\* direct call: it takes the views lock and snapshots the staleness.
RefreshEnter(by) ==
    /\ viewsLockFree(refreshing)
    /\ by = "tick" => (registered /\ answered = {})
    /\ refreshing' = refreshing \cup {[d |-> staleness, by |-> by]}
    /\ viewLast' = ViewStep("Lock", FALSE, <<>>, viewLast.settled)
    /\ UNCHANGED <<partitionVars, ddocs, viewsStore, staleness, registered, answered, erred>>

\* viewsRefresh returns: the refresh ran, the staleness is decremented by the
\* snapshot unless there was an error, and the lock is released.  For the
\* driver, periodicViewsRefresh answers whether anything was left over when
\* the staleness was decremented.
RefreshReturn(openFails) ==
    /\ openFails => (ddocs # NoDDocs /\ viewsStore = {})
    /\ \E call \in refreshing :
       LET r == viewsRefresh(vbuckets[ViewVB], ddocs, viewsStore, staleness,
                             call.d, openFails)
       IN  /\ viewsStore' = r.store
           /\ staleness' = r.staleness
           /\ answered' = IF call.by = "tick"
                          THEN {[answer |-> periodicViewsRefresh(r.leftovers),
                                 err |-> r.err]}
                          ELSE answered
           /\ erred' = (erred \/ r.err)
           /\ viewLast' = ViewStep(IF call.by = "tick" THEN "periodicViewsRefresh"
                                   ELSE "viewsRefresh",
                                   r.err, r.visited, {[err |-> r.err, ddocs |-> ddocs]})
           /\ refreshing' = refreshing \ {call}
    /\ UNCHANGED <<partitionVars, ddocs, registered>>

\* The driver has the answer of the refresh it called: it keeps the
\* registration or drops it.
DriverSettles ==
    /\ answered # {}
    /\ LET a == CHOOSE x \in answered : TRUE
       IN  /\ registered' = Reschedule(a.answer)
           /\ viewLast' = ViewStep("Reschedule", a.err, <<>>, viewLast.settled)
    /\ answered' = {}
    /\ UNCHANGED <<partitionVars, ddocs, viewsStore, staleness, erred, refreshing>>

NextViews ==
    \/ OnViews(SetDDocs)
    \/ \E kb \in ViewSets : OnViews(Mutate(MCRequest("SET", kb[1], kb[2], 0, 0)))
    \/ \E k \in ViewDeletes : OnViews(Mutate(MCRequest("DELETE", k, NilBytes, 0, 0)))
    \/ \E by \in {"tick", "call"} : OnViews(RefreshEnter(by))
    \/ \E openFails \in BOOLEAN : OnViews(RefreshReturn(openFails))
    \/ OnViews(DriverSettles)

SpecViews == Init /\ [][NextViews]_vars

\* ------------------------------------------------------ the bucket registry

\* An operation on the registry: it needs the registry lock, which it holds
\* for the length of its step; the partitions, the hub and the views take no
\* step.
OnRegistry(A) ==
    ~crashed /\ regLock = {} /\ A /\ UNCHANGED <<partitionVars, hubVars, viewVars, actorVars, stats>>

\* A step that goes on in the registry without taking the lock.
InRegistry(A) == ~crashed /\ A /\ UNCHANGED <<partitionVars, hubVars, viewVars, actorVars, stats>>

\* regEver after an operation left the registry as after.
Noted(after, name) ==
    IF after.quiescers[name] > registry.quiescers[name]
    THEN [regEver EXCEPT ![name] = "registered"] ELSE regEver

\* New(name, settings)
RegistryNew(name, live, allocFails) ==
    /\ registry.quiescers[name] < MaxQuiescers
    /\ allocFails => (live /\ registry.buckets[name].bucket = {})
    /\ LET out == BucketsNew(registry, name, live, allocFails)
       IN  /\ registry' = out.b
           /\ regLast' = RegStep("New", name, out.rv, out.err)
           /\ regEver' = Noted(out.b, name)
    /\ UNCHANGED <<regLock, crashed>>

\* Get(name)
RegistryGet(name, live, loadFails) ==
    /\ registry.quiescers[name] < MaxQuiescers
    /\ (loadFails \/ ~live) => registry.buckets[name] = Entry({})
    /\ loadFails => live
    /\ LET out == BucketsGet(registry, name, live, loadFails)
       IN  /\ registry' = out.b
           /\ regLast' = RegStep("Get", name, out.rv, loadFails)
           /\ regEver' = Noted(out.b, name)
    /\ UNCHANGED <<regLock, crashed>>

\* Close(name, purgeFiles)
RegistryClose(name) ==
    /\ LET out == BucketsClose(registry, name)
       IN  /\ registry' = out.b
           /\ regLast' = RegStep("Close", name, out.rv, out.err)
           /\ regEver' = IF out.err THEN regEver ELSE [regEver EXCEPT ![name] = "removed"]
    /\ UNCHANGED <<regLock, crashed>>

\* CloseAll(): it visits the entries in some order and panics at the first
\* nil placeholder.
RegistryCloseAll(done) ==
    /\ LET out == BucketsCloseAll(registry, done)
           placeholders == {n \in BucketNames : registry.buckets[n] = Entry({})}
       IN  /\ IF out.panics THEN done \cap placeholders = {} ELSE done = BucketNames
           /\ registry' = out.b
           /\ crashed' = out.panics
           /\ regLast' = RegStep("CloseAll", "", {}, out.panics)
    /\ UNCHANGED <<regLock, regEver>>

\* An operation on a bucket adds to its activity counter.
Activity(name) ==
    /\ \E bucket \in registry.buckets[name].bucket :
          /\ bucket.live /\ ~bucket.closed /\ bucket.activity < MaxActivity
          /\ registry' = [registry EXCEPT !.buckets[name] =
                             Entry({[bucket EXCEPT !.activity = @ + 1]})]
    /\ regLast' = RegStep("activity", name, {}, FALSE)
    /\ UNCHANGED <<regLock, regEver, crashed>>

\* The periodic driver calls a quiescer registered for the name: maybeQuiesce
\* takes the registry lock and observes the activity of the bucket.
QuiesceEnter(name) ==
    /\ registry.quiescers[name] > 0
    /\ regLock' = {[name |-> name, stuck |-> FALSE,
                    val |-> IF \E x \in registry.buckets[name].bucket : x.live
                            THEN (CHOOSE x \in registry.buckets[name].bucket : TRUE).activity
                            ELSE 0]}
    /\ regLast' = RegStep("Lock", name, {}, FALSE)
    /\ UNCHANGED <<registry, regEver, crashed>>

\* maybeQuiesce goes on from what it observed.  If it returns it releases the
\* lock, and the driver drops the quiescer unless it answers true; if it
\* calls Close with the lock held it waits for the lock from then on.
QuiesceReturn ==
    /\ \E tick \in regLock :
          /\ ~tick.stuck
          /\ LET out == maybeQuiesce(registry, tick.name, tick.val)
             IN  IF out.ends
                 THEN /\ registry' =
                           [out.b EXCEPT !.quiescers[tick.name] =
                               IF Reschedule(Quiescer(out.closed)) THEN @ ELSE @ - 1]
                      /\ regLock' = {}
                      /\ regLast' = RegStep("maybeQuiesce", tick.name, {}, out.closed)
                 ELSE /\ registry' = registry
                      /\ regLock' = {[tick EXCEPT !.stuck = TRUE]}
                      /\ regLast' = RegStep("maybeQuiesce: Close", tick.name, {}, FALSE)
    /\ UNCHANGED <<regEver, crashed>>

NextRegistry ==
    \/ \E n \in BucketNames, live \in BOOLEAN, allocFails \in BOOLEAN :
          OnRegistry(RegistryNew(n, live, allocFails))
    \/ \E n \in BucketNames, live \in BOOLEAN, loadFails \in BOOLEAN :
          OnRegistry(RegistryGet(n, live, loadFails))
    \/ \E n \in BucketNames : OnRegistry(RegistryClose(n))
    \/ \E done \in SUBSET BucketNames : OnRegistry(RegistryCloseAll(done))
    \/ \E n \in BucketNames : InRegistry(Activity(n))
    \/ \E n \in BucketNames : OnRegistry(QuiesceEnter(n))
    \/ InRegistry(QuiesceReturn)

SpecRegistry == Init /\ [][NextRegistry]_vars

\* ------------------------------------------------- the stats of a partition

\* A set or delete sent to vbucket 0, with what its handler does to the
\* stats, within the number of requests explored.
Counted(req) ==
    /\ requests < MaxRequests /\ requests' = requests + 1
    /\ Dispatch(ViewVB, req)
    /\ stats' = IF req.Opcode \in {"SET", "SETQ"}
                THEN vbSetStats(vbuckets[ViewVB], req, stats)
                ELSE vbDeleteStats(vbuckets[ViewVB], req, stats)
    /\ UNCHANGED <<hubVars, viewVars, regVars, actorVars>>

NextStats ==
    \/ \E op \in {"SET", "SETQ"}, k \in KVKeys, c \in ReqCas :
          Counted(MCRequest(op, k, "1", c, 0))
    \/ \E op \in {"DELETE", "DELETEQ"}, k \in KVKeys, c \in ReqCas :
          Counted(MCRequest(op, k, NilBytes, c, 0))

SpecStats == Init /\ [][NextStats]_vars

\* ------------------------------------------------- the actor of a partition

\* The loop the actor is in after an Apply callback has run: service goes
\* into serviceSuspended if the flag is set, and serviceSuspended returns to
\* service if it is not.
AfterApply(flag) == IF flag THEN "serviceSuspended" ELSE "service"

\* A step of the actor of vbucket 0 or of a caller of it.
OnActor(A) == A /\ UNCHANGED <<hubVars, viewVars, regVars, stats>>

\* service receives a command from the command channel and dispatches it.
\* When the apply channel is closed too, select takes either case.
Command(req) ==
    /\ actor = "service"
    /\ requests < MaxRequests /\ requests' = requests + 1
    /\ Dispatch(ViewVB, req)
    /\ UNCHANGED actorVars

\* Suspend() and Resume(): an Apply whose callback sets or clears the flag;
\* either loop receives it from the apply channel.
ApplySuspended(flag) ==
    /\ actor \in {"service", "serviceSuspended"} /\ ~achClosed
    /\ Idle(ViewVB)
    /\ suspended' = flag
    /\ actor' = AfterApply(flag)
    /\ last' = Step(ViewVB, Internal(IF flag THEN "Suspend" ELSE "Resume"), {}, {}, <<>>)
    /\ scen' = -1
    /\ UNCHANGED <<vbuckets, split, lockedBy, observer, requests, achClosed>>

\* Close(): the apply channel is closed.
CloseActor ==
    /\ ~achClosed /\ actor # "returned"
    /\ achClosed' = TRUE
    /\ last' = Step(ViewVB, Internal("Close"), {}, {}, <<>>)
    /\ scen' = -1
    /\ UNCHANGED <<vbuckets, split, lockedBy, observer, requests, suspended, actor>>

\* The actor finds the apply channel closed: the range loop of
\* serviceSuspended ends and service goes on; service returns.
ChannelClosed ==
    /\ achClosed /\ actor # "returned"
    /\ actor' = IF actor = "serviceSuspended" THEN "service" ELSE "returned"
    /\ last' = Step(ViewVB, Internal("closed"), {}, {}, <<>>)
    /\ scen' = -1
    /\ UNCHANGED <<vbuckets, split, lockedBy, observer, requests, suspended, achClosed>>

NextActor ==
    \/ \E k \in KVKeys : OnActor(Command(MCRequest("SET", k, "1", 0, 0)))
    \/ \E k \in KVKeys : OnActor(Command(MCRequest("DELETE", k, NilBytes, 0, 0)))
    \/ \E k \in KVKeys : OnActor(Command(MCRequest("GET", k, NilBytes, 0, 0)))
    \/ \E flag \in BOOLEAN : OnActor(ApplySuspended(flag))
    \/ OnActor(CloseActor)
    \/ OnActor(ChannelClosed)

SpecActor == Init /\ [][NextActor]_vars

\* ================================================================== claims

\* The key lies in [min, max), an empty bound being open.
Covers(min, max, key) ==
    /\ (Len(min) = 0 \/ BytesCompare(key, min) >= 0)
    /\ (Len(max) = 0 \/ BytesCompare(key, max) < 0)

\* The key lies in the range of the vbucket's config (a vbucket without
\* config has every key in range).
InRange(v, key) ==
    \A c \in v.config : Covers(c.MinKeyInclusive, c.MaxKeyExclusive, key)

HasItem(v, key, cas) == \E x \in v.items.elems : x.key = key /\ x.cas = cas

Sets == {"SET", "SETQ"}
Deletes == {"DELETE", "DELETEQ"}
Gets == {"GET", "GETK", "GETQ", "GETKQ"}

\* The contents of a vbucket that commands and splits write.
Contents(v) == <<v.items, v.changes, v.cas, v.state, v.config>>

\* C1: every successful set or delete is stamped with the value the CAS counter
\* had before the command, which the command then raises by one; the stamp is
\* the CAS of the record written to changes (and, for a set, to items), and it
\* is above the stamp of the mutation the partition submitted before it.
C1_CasStampedAndIncreasing ==
    [][\A p \in VBIDs :
         (last'.vb = p /\ last'.req.Opcode \in Sets \cup Deletes /\ last'.msg # {}) =>
            \A m \in last'.msg :
               /\ m.cas = vbuckets[p].cas
               /\ vbuckets'[p].cas = vbuckets[p].cas + 1
               /\ \A o \in observer[p] : o.cas < m.cas
               /\ \E x \in vbuckets'[p].changes.elems : x.key = m.key /\ x.cas = m.cas
               /\ ~m.deleted => HasItem(vbuckets'[p], m.key, m.cas)
               /\ observer'[p] = {m}]_vars

\* A delete was stamped 2, after two earlier mutations.
C1_Witness ==
    \E m \in last.msg : m.deleted /\ m.cas = 2 /\ vbuckets[last.vb].cas = 3

\* The step is a set or delete on p that carries a non-zero request CAS.
Conditional(p) ==
    last'.vb = p /\ last'.req.Opcode \in Sets \cup Deletes /\ last'.req.Cas # 0

\* What C2 says of a conditional step on p.
ConditionalOutcome(p) ==
    LET hit == HasItem(vbuckets[p], last'.req.Key, last'.req.Cas)
    IN  /\ (last'.msg # {}) <=> hit
        /\ hit => /\ vbuckets'[p].cas = vbuckets[p].cas + 1
                  /\ \A r \in last'.res : r.Status = SUCCESS
        /\ (last'.req.Opcode \in Sets /\ ~hit) =>
              /\ last'.res = {StatusResponse(EINVAL)}
              /\ last'.msg = {}
              /\ vbuckets'[p] = vbuckets[p]
              /\ observer' = observer

\* C2 as stated: a set or delete with a non-zero request CAS succeeds iff the
\* key is in items with that CAS; a set that misses returns EINVAL, emits no
\* mutation and leaves items, changes and the CAS counter as they were.
C2_AsStated ==
    [][\A p \in VBIDs : Conditional(p) => ConditionalOutcome(p)]_vars

\* C2, amended: the same, for a key inside the partition's range.
C2_ConditionalInRange ==
    [][\A p \in VBIDs :
         (Conditional(p) /\ InRange(vbuckets[p], last'.req.Key)) => ConditionalOutcome(p)]_vars

\* A set with a non-zero request CAS went through.
C2_Witness ==
    /\ last.req.Opcode = "SET" /\ last.req.Cas # 0
    /\ \E m \in last.msg : m.cas = last.req.Cas + 1

\* C3: a get, set or delete on a key outside the range of the partition's
\* config returns NOT_MY_RANGE, emits no mutation and leaves the partition as
\* it was; a key that no non-empty bound excludes is not refused this way.
C3_NotMyRange ==
    [][\A p \in VBIDs :
         (last'.vb = p /\ last'.req.Opcode \in Gets \cup Sets \cup Deletes) =>
            IF InRange(vbuckets[p], last'.req.Key)
            THEN \A r \in last'.res : r.Status # NOT_MY_RANGE
            ELSE /\ last'.res = {StatusResponse(NOT_MY_RANGE)}
                 /\ last'.msg = {}
                 /\ Contents(vbuckets'[p]) = Contents(vbuckets[p])
                 /\ observer' = observer]_vars

\* A delete of a key that is in items was refused for its range.
C3_Witness ==
    /\ last.req.Opcode = "DELETE"
    /\ last.res = {StatusResponse(NOT_MY_RANGE)}
    /\ \E x \in vbuckets[last.vb].items.elems : x.key = last.req.Key

\* The responses C4 states for the six commands of Scenario.
StatedResults ==
    << MCResponse(SUCCESS, EmptyBytes, 0, NilBytes, FALSE),
       MCResponse(SUCCESS, EmptyBytes, 0, "1", FALSE),
       MCResponse(SUCCESS, EmptyBytes, 1, NilBytes, FALSE),
       StatusResponse(EINVAL),
       StatusResponse(SUCCESS),
       StatusResponse(KEY_ENOENT) >>

\* The responses with the last three amended: the third set, whose request CAS
\* of 0 is unconditional, succeeds with CAS 2; the delete with CAS 1 then
\* misses the item's CAS; the item is still there.
AmendedResults ==
    << MCResponse(SUCCESS, EmptyBytes, 0, NilBytes, FALSE),
       MCResponse(SUCCESS, EmptyBytes, 0, "1", FALSE),
       MCResponse(SUCCESS, EmptyBytes, 1, NilBytes, FALSE),
       MCResponse(SUCCESS, EmptyBytes, 2, NilBytes, FALSE),
       StatusResponse(EINVAL),
       MCResponse(SUCCESS, EmptyBytes, 2, "9", FALSE) >>

\* C4 as stated: on a fresh partition the commands of Scenario are answered
\* with CAS 0, ("1", CAS 0), CAS 1, EINVAL, success, KEY_ENOENT.
C4_AsStated == scen \in 1 .. 6 => last.res = {StatedResults[scen]}

\* C4, amended: they are answered with CAS 0, ("1", CAS 0), CAS 1, CAS 2,
\* EINVAL, ("9", CAS 2).
C4_RoundTrip == scen \in 1 .. 6 => last.res = {AmendedResults[scen]}

\* All six commands of Scenario have been sent.
C4_Witness == scen = 6

\* The destinations of the split p's actor is carrying out.
Destinations(p) ==
    {split[p].splits[i].VBucketId : i \in 1 .. Len(split[p].splits)}

\* The step ends the callback of one split of p's split-range.
CopyStep(p) ==
    /\ split[p].active /\ split[p].phase = "return" /\ split[p].idx > 0
    /\ split'[p].idx = split[p].idx - 1

\* The step ends p's split-range and sends its response.
DoneStep(p) == split[p].active /\ ~split'[p].active

\* The elements of a tree of the source whose keys lie in the split's range.
InPart(t, part) ==
    {x \in t.elems : Covers(part.MinKeyInclusive, part.MaxKeyExclusive, x.key)}

\* The vbuckets that look like destinations of the split p has answered: they
\* carry p's CAS counter and a range config.
Inheritors(p) ==
    {d \in VBIDs \ {p} :
        /\ vbuckets[d].exists /\ vbuckets[d].cas = vbuckets[p].cas
        /\ \E c \in vbuckets[d].config :
              Len(c.MinKeyInclusive) > 0 \/ Len(c.MaxKeyExclusive) > 0}

\* The split-range of last.vb has just been answered with success.
SplitSucceeded ==
    last.req.Opcode = "SPLIT_RANGE" /\ last.res = {StatusResponse(SUCCESS)}

\* C5 as stated: when a split-range succeeds, the callback of each split leaves
\* in its destination's items and changes exactly the source's items and
\* change records whose keys lie in the split's range.
C5_AsStated ==
    [][\A p \in VBIDs :
         (CopyStep(p) /\ split[p].res.Status = SUCCESS) =>
            LET part == split[p].splits[split[p].idx]
                d    == part.VBucketId
            IN  /\ vbuckets'[d].items.elems = InPart(vbuckets[p].items, part)
                /\ vbuckets'[d].changes.elems = InPart(vbuckets[p].changes, part)]_vars

\* A split-range succeeded on a source whose last mutation was a set, and the
\* destination whose range covers that key holds no item.
C5_Witness ==
    /\ SplitSucceeded
    /\ \E m \in observer[last.vb], d \in Inheritors(last.vb) :
          /\ ~m.deleted /\ m.cas + 1 = vbuckets[last.vb].cas
          /\ InRange(vbuckets[d], m.key)
          /\ vbuckets[d].items.elems = {}

\* C6: a split-range leaves its source as it was until it is answered; answered
\* with success, it leaves the source with empty items and changes, state dead
\* and a config with both bounds empty, and by then the callback of every one
\* of its destinations has copied.
C6_SourceResetLast ==
    [][\A p \in VBIDs :
         split[p].active =>
            IF DoneStep(p) /\ split[p].res.Status = SUCCESS
            THEN /\ split[p].copied = Destinations(p)
                 /\ vbuckets'[p].items.elems = {}
                 /\ vbuckets'[p].changes.elems = {}
                 /\ vbuckets'[p].state = VBDead
                 /\ vbuckets'[p].config = {VBConfig(EmptyBytes, EmptyBytes)}
                 /\ vbuckets'[p].cas = vbuckets[p].cas
            ELSE vbuckets'[p] = vbuckets[p]]_vars

\* A split-range succeeded on a source that was not dead and held an item; two
\* destinations carry its state and counter.
C6_Witness ==
    /\ SplitSucceeded
    /\ vbuckets[last.vb].state = VBDead /\ vbuckets[last.vb].items.elems = {}
    /\ \E m \in observer[last.vb] : ~m.deleted
    /\ Cardinality({d \in Inheritors(last.vb) : vbuckets[d].state = VBActive}) = 2

\* C7: when a split-range succeeds, the callback of each split leaves its
\* destination with the source's CAS counter and state and with the split's
\* range as config; and the CAS counter of every vbucket is above the CAS of
\* every item and change record the vbucket holds.
C7_DestinationInherits ==
    [][/\ \A p \in VBIDs :
            (CopyStep(p) /\ split[p].res.Status = SUCCESS) =>
               LET part == split[p].splits[split[p].idx]
                   d    == part.VBucketId
               IN  /\ vbuckets'[d].cas = vbuckets[p].cas
                   /\ vbuckets'[d].state = vbuckets[p].state
                   /\ vbuckets'[d].config =
                         {VBConfig(part.MinKeyInclusive, part.MaxKeyExclusive)}
       /\ \A p \in VBIDs :
            \A x \in vbuckets'[p].items.elems \cup vbuckets'[p].changes.elems :
               x.cas < vbuckets'[p].cas]_vars

\* A destination of a split took a set after the split, stamped with the
\* counter it got from the source.
C7_Witness ==
    /\ last.req.Opcode = "SET"
    /\ \E m \in last.msg :
          /\ m.cas >= 1
          /\ \A x \in vbuckets[last.vb].changes.elems : x.key = m.key /\ x.cas = m.cas
    /\ \E c \in vbuckets[last.vb].config : Len(c.MinKeyInclusive) > 0

\* C8 as stated: when a split-range is answered with success, every item the
\* source held is in the items of exactly one vbucket, a destination whose
\* range covers its key, or no destination's range covers its key and it is
\* in no vbucket's items.
C8_AsStated ==
    [][\A p \in VBIDs :
         (DoneStep(p) /\ split[p].res.Status = SUCCESS) =>
            \A x \in vbuckets[p].items.elems :
               LET holders  == {d \in VBIDs : x \in vbuckets'[d].items.elems}
                   covering == {i \in 1 .. Len(split[p].splits) :
                                   x \in InPart(vbuckets[p].items, split[p].splits[i])}
               IN  \/ \E i \in covering : holders = {split[p].splits[i].VBucketId}
                   \/ covering = {} /\ holders = {}]_vars

\* A split-range succeeded whose two destinations cover every key between
\* them, on a source whose last mutation was a set; no vbucket holds an item.
C8_Witness ==
    /\ SplitSucceeded
    /\ \E m \in observer[last.vb] : ~m.deleted /\ m.cas + 1 = vbuckets[last.vb].cas
    /\ Cardinality(Inheritors(last.vb)) = 2
    /\ \A k \in Keys : \E d \in Inheritors(last.vb) : InRange(vbuckets[d], k)
    /\ \A d \in VBIDs : vbuckets[d].items.elems = {}

\* C9: a split-range that is refused changes no vbucket; a split-range whose
\* response is not success changes no vbucket that exists, its steps only
\* create the destinations its ids are free for; answered with EINVAL it has
\* copied to no destination, and its source is as it was.
C9_RefusedSplitTouchesNothing ==
    [][\A p \in VBIDs :
         /\ (last'.vb = p /\ last'.req.Opcode = "SPLIT_RANGE" /\ ~split[p].active) =>
               /\ \A r \in last'.res : r.Status = EINVAL
               /\ vbuckets' = vbuckets
         /\ (split[p].active /\ split'[p] # split[p] /\ split[p].res.Status # SUCCESS) =>
               /\ \A d \in VBIDs :
                     \/ vbuckets'[d] = vbuckets[d]
                     \/ ~vbuckets[d].exists /\ vbuckets'[d] = newVBucket(d)
               /\ vbuckets'[p] = vbuckets[p]
               /\ split'[p].copied = {}
               /\ DoneStep(p) => /\ vbuckets' = vbuckets
                                 /\ last'.res = {split[p].res}
                                 /\ split[p].res.Status = EINVAL]_vars

\* A split-range was answered with EINVAL for a destination that was not
\* dead, after the callback of a lower destination had begun; that
\* destination is as it was created.
C9_Witness ==
    /\ last.req.Opcode = "SPLIT_RANGE"
    /\ \E r \in last.res :
          r.Status = EINVAL /\ r.Body = "Error split-range, state not initially dead"
    /\ \E d \in VBIDs \ {last.vb} : vbuckets[d] = newVBucket(d)
    /\ \E d \in VBIDs \ {last.vb} : vbuckets[d].state = VBActive

\* The records of changes above CAS c.
Above(v, c) == {x \in v.changes.elems : x.cas > c}

\* What C10 says of the changes-since step just taken.
StreamedAll ==
    LET c == last.req.Cas
        want == Above(vbuckets[last.vb], c)
    IN  /\ Len(last.stream) = Cardinality(want)
        /\ \A x \in want : \E i \in 1 .. Len(last.stream) :
              last.stream[i].Key = x.key /\ last.stream[i].Cas = x.cas
        /\ \A i \in 1 .. Len(last.stream) : last.stream[i].Cas > c
        /\ \A i, j \in 1 .. Len(last.stream) :
              i < j => last.stream[i].Cas < last.stream[j].Cas
        /\ last.res = {MCResponse(SUCCESS, EmptyBytes, c, NilBytes, FALSE)}

\* C10 as stated: changesSince(c) streams one response for every record of
\* changes with CAS above c, in ascending CAS order, then one terminating
\* response with an empty key; no record at or below c is streamed.
C10_AsStated == last.req.Opcode = "CHANGES_SINCE" => StreamedAll

\* C10, amended: it does so when the transport reports no error; when the
\* transport fails, the responses streamed are the first of these, in the
\* same order, and the final response is fatal.
C10_ChangesSince ==
    last.req.Opcode = "CHANGES_SINCE" =>
       IF last.req.failAt = 0 THEN StreamedAll
       ELSE /\ Len(last.stream) <= Cardinality(Above(vbuckets[last.vb], last.req.Cas))
            /\ \A i \in 1 .. Len(last.stream) :
                  /\ last.stream[i].Cas > last.req.Cas
                  /\ \E x \in vbuckets[last.vb].changes.elems :
                        x.key = last.stream[i].Key /\ x.cas = last.stream[i].Cas
                  /\ Cardinality({x \in Above(vbuckets[last.vb], last.req.Cas) :
                                     x.cas < last.stream[i].Cas}) = i - 1
            /\ \A r \in last.res : r.Fatal /\ r.Key = EmptyBytes
            /\ last.res # {}

\* changesSince(0) streamed the records of CAS 1 and 2 and left out the one
\* of CAS 0.
C10_Witness ==
    /\ last.req.Opcode = "CHANGES_SINCE" /\ last.req.failAt = 0 /\ last.req.Cas = 0
    /\ Len(last.stream) = 2
    /\ Cardinality(vbuckets[last.vb].changes.elems) = 3

\* The opcode that answers where the quiet one keeps silent.
Loud(op) == IF op = "SETQ" THEN "SET" ELSE IF op = "DELETEQ" THEN "DELETE" ELSE op

\* C11 as stated: a SETQ or DELETEQ that succeeds sends no response and
\* submits exactly one mutation, the one SET or DELETE would submit for the
\* same key and CAS on the same partition.
C11_AsStated ==
    [][\A p \in VBIDs :
         (last'.vb = p /\ last'.req.Opcode \in {"SETQ", "DELETEQ"} /\ last'.msg # {}) =>
            /\ last'.res = {}
            /\ Cardinality(last'.msg) = 1
            /\ last'.msg = dispatch(vbuckets[p],
                                    MCRequest(Loud(last'.req.Opcode), last'.req.Key,
                                              NilBytes, last'.req.Cas, 0)).msg]_vars

\* A DELETEQ removed an item and submitted its mutation.
C11_Witness ==
    /\ last.req.Opcode = "DELETEQ"
    /\ \E m \in last.msg : m.deleted /\ m.key = last.req.Key
    /\ \A x \in vbuckets[last.vb].items.elems : x.key # last.req.Key

\* The record of changes with the highest CAS for its key.
Latest(v, y) ==
    y \in v.changes.elems /\ \A z \in v.changes.elems : z.key = y.key => z.cas <= y.cas

GotBefore(i) == IF i \in DOMAIN hubSubs THEN hubSubs[i].got ELSE <<>>

\* C13: while key k was never deleted, a subscription on k has received a
\* value exactly if the highest value ever published on k has reached its
\* threshold, and the value it received is the highest ever published on k at
\* the time (the subscription may be made after the publishes).
C13_NeverRewinds ==
    [][\A i \in DOMAIN hubSubs' :
         LET s == hubSubs'[i]
         IN  ~hubEver'[s.key].deleted =>
                /\ (s.got # <<>>) <=> (hubEver'[s.key].hi >= s.threshold)
                /\ (s.got # GotBefore(i)) => s.got = <<hubEver'[s.key].hi>>]_vars

\* A subscription with threshold 2 was sent 3; a lower value was published
\* since; a subscription made now with threshold 3 is sent 3 at once.
C13_Witness ==
    /\ hubLast = HubOp("sub", "a") /\ Len(hubSubs) = 2
    /\ hubSubs[1] = [key |-> "a", threshold |-> 2, state |-> "fired", got |-> <<3>>]
    /\ hubSubs[2] = [key |-> "a", threshold |-> 3, state |-> "fired", got |-> <<3>>]
    /\ ~hubEver["a"].deleted

\* C14: a subscription's channel carries at most one value; a value arrives
\* only on a publish on the subscription's key, or as the subscription is
\* made, and only if the highest value published on that key has then reached
\* the threshold; once it has arrived, nothing more happens to the
\* subscription.
C14_OneShotKeyScoped ==
    [][\A i \in DOMAIN hubSubs' :
         LET s == hubSubs'[i]
         IN  /\ Len(s.got) <= 1
             /\ (s.got # GotBefore(i)) =>
                   /\ GotBefore(i) = <<>>
                   /\ hubLast'.key = s.key
                   /\ \/ hubLast'.op = "pub"
                      \/ hubLast'.op = "sub" /\ i \notin DOMAIN hubSubs
                   /\ Crossed(hubHi'[s.key], s)
                   /\ s.state = "fired"
             /\ (i \in DOMAIN hubSubs /\ hubSubs[i].state # "waiting") => s = hubSubs[i]]_vars

\* A publish on one key fired the subscription of that key and left the
\* subscription of the other key waiting, whose threshold the value meets.
C14_Witness ==
    /\ hubLast = HubOp("pub", "a") /\ Len(hubSubs) = 2
    /\ hubSubs[1] = [key |-> "a", threshold |-> 2, state |-> "fired", got |-> <<3>>]
    /\ hubSubs[2] = [key |-> "b", threshold |-> 3, state |-> "waiting", got |-> <<>>]

\* C15: delete(k) closes the channel of every waiting subscription of k,
\* sending nothing, forgets k's highest value and leaves the other keys
\* alone; a subscription waits unless the highest value published on its key
\* since then has reached its threshold; stop() closes the channel of every
\* waiting subscription.
C15_DeleteAndStop ==
    [][/\ hubLast'.op = "delete" =>
            /\ hubHi' = [hubHi EXCEPT ![hubLast'.key] = {}]
            /\ hubSubs' = [i \in DOMAIN hubSubs |->
                             IF hubSubs[i].key = hubLast'.key /\ hubSubs[i].state = "waiting"
                             THEN [hubSubs[i] EXCEPT !.state = "closed"]
                             ELSE hubSubs[i]]
       /\ hubLast'.op = "stop" =>
            /\ hubSubs' = [i \in DOMAIN hubSubs |->
                             IF hubSubs[i].state = "waiting"
                             THEN [hubSubs[i] EXCEPT !.state = "closed"]
                             ELSE hubSubs[i]]
            /\ hubStopped'
       /\ \A i \in DOMAIN hubSubs' :
            /\ hubSubs'[i].state = "closed" => hubSubs'[i].got = <<>>
            /\ hubSubs'[i].state = "waiting" =>
                  ~Crossed(hubHi'[hubSubs'[i].key], hubSubs'[i])
            /\ (hubSubs'[i].got # GotBefore(i)) =>
                  hubSubs'[i].got = <<CHOOSE h \in hubHi'[hubSubs'[i].key] : TRUE>>]_vars

\* A subscription's channel was closed, with nothing sent, by a delete of
\* its key; the key has no highest value, and a subscription made since with
\* the lowest threshold waits.
C15_Witness ==
    /\ hubLast = HubOp("sub", "a") /\ Len(hubSubs) = 2
    /\ hubSubs[1] = [key |-> "a", threshold |-> 3, state |-> "closed", got |-> <<>>]
    /\ hubSubs[2] = [key |-> "a", threshold |-> 1, state |-> "waiting", got |-> <<>>]
    /\ hubHi["a"] = {}

\* The values the channels of the subscriptions of key k have carried.
DeliveredOn(k) ==
    {hubSubs[i].got[j] : i \in {n \in DOMAIN hubSubs : hubSubs[n].key = k /\ hubSubs[n].got # <<>>},
                         j \in {1}}

\* C16 as stated: a value delivered to a subscription of key k is not below
\* any value delivered before to a subscription of k.
C16_AsStated ==
    [][\A i \in DOMAIN hubSubs' :
         (hubSubs'[i].got # GotBefore(i)) =>
            \A v \in DeliveredOn(hubSubs'[i].key) :
               hubSubs'[i].got[Len(hubSubs'[i].got)] >= v]_vars

\* C16, amended: it is not below any value delivered to a subscription of k
\* since the last delete of k.
C16_NoLowerSinceDelete ==
    [][\A i \in DOMAIN hubSubs' :
         (hubSubs'[i].got # GotBefore(i)) =>
            hubSubs'[i].got[Len(hubSubs'[i].got)] >= hubEver[hubSubs'[i].key].delivered]_vars

\* A subscription was sent 3; since then a subscription made after a lower
\* publish was sent 3 again.
C16_Witness ==
    /\ hubLast = HubOp("sub", "b") /\ Len(hubSubs) = 2
    /\ hubHi["b"] = {3} /\ hubEver["b"].delivered = 3
    /\ hubSubs[1].key = "b" /\ hubSubs[1].got = <<3>>
    /\ hubSubs[2].key = "b" /\ hubSubs[2].got = <<3>> /\ hubSubs[2].threshold = 1

\* The rows of the view indexes whose document id is docId.
RowsOf(docId) ==
    {r \in UNION {s.vindexes : s \in viewsStore} : r.key[2] = docId}

\* The latest viewsRefresh returned without error, with the design documents
\* the bucket has, and no mutation came after it.
Refreshed ==
    refreshing = {} /\ ddocs # NoDDocs /\ viewLast.settled = {[err |-> FALSE, ddocs |-> ddocs]}

\* The row the view "d/v" holds for a document with the tag.
TagRow(docId, tag) == [view |-> "d/v", key |-> vindexKey(docId, tag), val |-> 1]

\* C17 as stated: after a refresh the view index reflects each document's
\* latest state: for a document set with the tag x (or y) it holds exactly
\* one row, (x, docId) (or (y, docId)), whatever it held for the document
\* before.
C17_AsStated ==
    Refreshed =>
        \A i \in vbuckets[ViewVB].items.elems :
            /\ i.data = DocX => RowsOf(i.key) = {TagRow(i.key, "x")}
            /\ i.data = DocY => RowsOf(i.key) = {TagRow(i.key, "y")}

\* On the fresh partition "a" was set with the tag x, which gave it the CAS
\* 0, and a refresh has returned without error.
C17_Witness ==
    /\ Refreshed /\ viewLast.op = "viewsRefresh"
    /\ vbuckets[ViewVB].cas = 1
    /\ vbuckets[ViewVB].items.elems = {Item(KeyA, 0, DocX)}


\* The rows derived from the emits of a back-index entry of docId: one row
\* per view and emit, at the emit's key and the document's id.
DerivedRows(docId, emitsByView) ==
    {[view |-> w[1], key |-> vindexKey(docId, w[2].Key), val |-> w[2].Value] :
        w \in UNION {{<<view, emitsByView[view][n]>> : n \in DOMAIN emitsByView[view]} :
                        view \in DOMAIN emitsByView}}

RefreshReturns == refreshing # {} /\ refreshing' = {}

\* The back-index and the view indexes of a views store, those of a store
\* not opened yet being empty.
Indexes(store) ==
    IF store = {} THEN newBucketStore ELSE CHOOSE s \in store : TRUE

C20_AsStated ==
    [][/\ (RefreshReturns /\ viewLast'.op = "periodicViewsRefresh" /\ viewLast'.err) =>
             staleness' = staleness
       /\ \A a \in answered : (a.err /\ answered' = {}) => registered']_vars

\* The refresh the driver called has failed at the null document "a": the
\* partition is stale and its refresh is no longer registered.
C20_Witness ==
    /\ viewLast.op = "Reschedule" /\ viewLast.err
    /\ Item(KeyA, 1, DocNull) \in vbuckets[ViewVB].items.elems
    /\ staleness = 2 /\ ~registered

\* The livebucket loaded under the name, if there is one.
LiveBucket(b, name) == {x \in b.buckets[name].bucket : x.live}

\* C21: when a quiescer tick on a loaded livebucket returns: if it observed
\* activity, the counter is lowered by what it observed (what was added since
\* stays), the bucket stays under its name and the quiescer stays registered;
\* if it observed none, the entry becomes the nil placeholder under the same
\* name and the quiescer is dropped.
C21_QuiescerTick ==
    [][\A tick \in regLock : \A lb \in LiveBucket(registry, tick.name) :
          regLock' = {} =>
             IF tick.val > 0
             THEN /\ LiveBucket(registry', tick.name) =
                        {[lb EXCEPT !.activity = lb.activity - tick.val]}
                  /\ registry'.quiescers[tick.name] = registry.quiescers[tick.name]
             ELSE /\ registry'.buckets[tick.name] = Entry({})
                  /\ registry'.quiescers[tick.name] = registry.quiescers[tick.name] - 1]_vars

\* A tick on "b1" has returned that had observed an activity of 1 while
\* another was added: the bucket is loaded with an activity of 1 and its
\* quiescer registered.
C21_Witness ==
    /\ regLast = RegStep("maybeQuiesce", "b1", {}, FALSE)
    /\ registry.buckets["b1"] = Entry({[NewBucket(TRUE) EXCEPT !.activity = 1]})
    /\ registry.quiescers["b1"] = 1


\* Get(name) returns in this step.
Got(name) == regLock = {} /\ regLast'.op = "Get" /\ regLast'.name = name

\* Get has loaded the bucket under the name again: it returns an open bucket,
\* which is the one under the name now, and one more quiescer is registered
\* for the name.
Reloaded(name) ==
    /\ \E bucket \in regLast'.rv : ~bucket.closed
    /\ registry'.buckets[name] = Entry(regLast'.rv)
    /\ registry'.quiescers[name] = registry.quiescers[name] + 1

\* C22 as stated: Get of a quiesced name loads the bucket again and returns
\* it open and registered with a quiescer; Get returns nil only for a name
\* that was never registered or was removed by Close.
C22_AsStated ==
    [][\A n \in BucketNames : Got(n) =>
          /\ registry.buckets[n] = Entry({}) => Reloaded(n)
          /\ regLast'.rv = {} => regEver[n] \in {"never", "removed"}]_vars

\* "b1" was quiesced by a tick and Get was called for it, but loading it
\* failed: Get has returned nil and the placeholder is still under the name.
C22_Witness ==
    /\ regLast = RegStep("Get", "b1", {}, TRUE)
    /\ registry.buckets["b1"] = Entry({})
    /\ registry.quiescers["b1"] = 0
    /\ regEver["b1"] = "registered"


\* The split-range of source p is in vb.Apply, waiting for the actor of its
\* next destination, and that actor is busy with the split-range of q: as
\* its source, or in an Apply callback of it.
WaitsFor(p, q) ==
    /\ p # q /\ split[p].active /\ split[p].phase = "apply"
    /\ LET d == split[p].splits[split[p].idx + 1].VBucketId
       IN  (d = q /\ split[q].active) \/ lockedBy[d] = q

\* The split-range of p waits for that of q, directly or through others.
WaitsOn(p, q) ==
    \/ WaitsFor(p, q)
    \/ \E r \in VBIDs : WaitsFor(p, r) /\ WaitsFor(r, q)
    \/ \E r, t \in VBIDs : WaitsFor(p, r) /\ WaitsFor(r, t) /\ WaitsFor(t, q)

\* C23 as stated: split-ranges running at the same time on different sources
\* never deadlock: none waits for itself through the others.
C23_AsStated == \A p \in VBIDs : ~WaitsOn(p, p)

\* Two split-ranges run at the same time, on vbucket 0 with vbucket 1 as a
\* destination and on vbucket 1 with vbucket 0 as a destination.
C23_Witness ==
    /\ split[0].active /\ split[1].active
    /\ \E n \in DOMAIN split[0].splits : split[0].splits[n].VBucketId = 1
    /\ \E n \in DOMAIN split[1].splits : split[1].splits[n].VBucketId = 0


\* C24 as stated: while the suspended flag is set the actor dispatches no
\* command: a step that starts with the flag set is no command's.
C24_AsStated == [][suspended => requests' = requests]_vars

\* The partition was suspended and then closed, and a set was dispatched
\* with the flag still set.
C24_Witness ==
    /\ suspended /\ achClosed
    /\ last.req.Opcode = "SET" /\ last.msg # {}
    /\ vbuckets[ViewVB].cas = 1


\* The command of the step was answered as a success: a set by SUCCESS or,
\* if quiet, by nothing; a delete by SUCCESS.
Succeeded(step) ==
    IF step.req.Opcode \in Sets
    THEN \A r \in step.res : r.Status = SUCCESS
    ELSE \E r \in step.res : r.Status = SUCCESS

\* C25: a set or delete that succeeds on a partition submits one mutation
\* event to the partition's broadcaster, for its key and of its kind, with
\* the CAS assigned to it, which is above the CAS of the event submitted
\* before it; one that fails submits none.
C25_OneEventPerMutation ==
    [][\A p \in VBIDs :
         (last'.vb = p /\ last'.req.Opcode \in Sets \cup Deletes) =>
            IF Succeeded(last')
            THEN /\ observer'[p] = {mutation(p, last'.req.Key, vbuckets[p].cas,
                                            last'.req.Opcode \in Deletes)}
                 /\ \A o \in observer[p] : \A m \in observer'[p] : o.cas < m.cas
                 /\ vbuckets'[p].cas > vbuckets[p].cas
            ELSE /\ observer'[p] = observer[p]
                 /\ vbuckets'[p].cas = vbuckets[p].cas]_vars

\* A conditional delete failed after two sets and a delete of the other key
\* had succeeded: the broadcaster's last event is still that delete's.
C25_Witness ==
    /\ last.req.Opcode = "DELETE" /\ last.req.Key = KeyA
    /\ \E r \in last.res : r.Status = EINVAL
    /\ observer[last.vb] = {mutation(last.vb, KeyZ, 2, TRUE)}
    /\ vbuckets[last.vb].cas = 3


\* C26 as stated: as long as no refresh has returned an error, a partition
\* whose staleness counter is positive has its refresh registered with the
\* periodic driver, or the driver holds the answer true of the refresh it
\* called.
C26_AsStated ==
    (~erred /\ staleness > 0) =>
        (registered \/ \E a \in answered : a.answer)

\* The driver has dropped the registration on the answer false of a refresh
\* that found nothing left over, after a mutation had marked the partition
\* stale again: the counter is 1, no refresh is registered or running, and
\* no refresh has returned an error.
C26_Witness ==
    /\ viewLast.op = "Reschedule" /\ ~viewLast.err
    /\ staleness = 1 /\ ~registered /\ ~erred
    /\ refreshing = {} /\ answered = {}


\* C27 as stated: a quiescer tick that holds the registry lock goes on to
\* return and release it: it never waits for the lock it holds.
C27_AsStated == \A tick \in regLock : ~tick.stuck

\* The tick for "b1", whose bucket is no livebucket, has called Close with
\* the registry lock held and waits for the lock; the bucket is still open
\* under its name.
C27_Witness ==
    /\ regLock = {[name |-> "b1", stuck |-> TRUE, val |-> 0]}
    /\ regLast = RegStep("maybeQuiesce: Close", "b1", {}, FALSE)
    /\ registry.buckets["b1"] = Entry({NewBucket(FALSE)})


\* C28 as stated: CloseAll returns without a panic in every state of the
\* registry, and every bucket loaded under a name is closed after it.
C28_AsStated ==
    [][regLast'.op = "CloseAll" =>
          /\ ~crashed'
          /\ \A n \in BucketNames : \A bucket \in registry'.buckets[n].bucket :
                 bucket.closed]_vars

\* CloseAll has panicked at the nil placeholder of the quiesced "b1" before
\* it came to "b2", whose bucket is still open.
C28_Witness ==
    /\ crashed /\ regLast = RegStep("CloseAll", "", {}, TRUE)
    /\ registry.buckets["b1"] = Entry({})
    /\ registry.buckets["b2"] = Entry({NewBucket(TRUE)})


\* The key was deleted, and the refresh has processed its tombstone: the
\* latest change record of the key is a tombstone, and the back-index entry
\* of the key has the tombstone's CAS.
TombstoneProcessed(key) ==
    \E y \in vbuckets[ViewVB].changes.elems :
        /\ y.key = key /\ y.data = NilBytes /\ Latest(vbuckets[ViewVB], y)
        /\ \A i \in vbuckets[ViewVB].items.elems : i.key # key
        /\ \E s \in viewsStore : \E b \in s.keys.elems : b.key = key /\ b.cas = y.cas

\* C29 as stated: after a refresh that returned without error and processed
\* the tombstone of a deleted key, the view indexes hold no row with the
\* key as document id.
C29_AsStated ==
    \A key \in KVKeys : (Refreshed /\ TombstoneProcessed(key)) => RowsOf(key) = {}

\* "a" was set with the tag x and indexed, then deleted, and a refresh has
\* processed the tombstone: the row (x, "a") is gone and the view holds the
\* row the map function emitted for the tombstone.
C29_Witness ==
    /\ Refreshed /\ ~viewLast.err /\ TombstoneProcessed(KeyA)
    /\ \E s \in viewsStore :
          Item(KeyA, 1, [view \in TagDDocs |-> <<ViewRow(KeyA, "x", 1)>>]) \in s.changes.elems
    /\ RowsOf(KeyA) = {TagRow(KeyA, Undefined)}


\* C30 as stated: the Items counter of the partition's stats is the number
\* of keys in its items.
C30_AsStated ==
    stats.Items = Cardinality({i.key : i \in vbuckets[ViewVB].items.elems})

\* A conditional delete of "a" with a CAS that is not the item's was refused
\* with EINVAL after "a" was set: the item is still there and the counter is 0.
C30_Witness ==
    /\ last.req.Opcode = "DELETE" /\ last.req.Key = KeyA /\ last.req.Cas = 1
    /\ \E r \in last.res : r.Status = EINVAL
    /\ vbuckets[ViewVB].items.elems = {Item(KeyA, 0, "1")}
    /\ stats.Items = 0


\* C31: the staleness counter is never negative, and the snapshot of a
\* viewsRefresh that holds the views lock is never above the counter, however
\* markStale and the refreshes interleave.
C31_StalenessNeverNegative ==
    /\ staleness >= 0
    /\ \A call \in refreshing : 0 <= call.d /\ call.d <= staleness

\* A viewsRefresh that had snapshotted 2 has returned without error after a
\* third mutation was marked while it ran: the counter is 1.
C31_Witness ==
    /\ viewLast.op = "viewsRefresh" /\ ~viewLast.err
    /\ refreshing = {} /\ staleness = 1
    /\ vbuckets[ViewVB].cas = 3

====
